---------------------------- MODULE Spec2Model ----------------------------
(***************************************************************************)
(* Flow-sensitive checks of staticcheck (lint.go) as state machines.       *)
(*                                                                         *)
(*   SpecRec    CheckInfiniteRecursion over a function's SSA blocks        *)
(*   SpecLoop   CheckIneffectiveLoop over a function body's statements     *)
(*   SpecField  CheckIneffecitiveFieldAssignments over a method's SSA,     *)
(*              run twice on the same representation                       *)
(*   SpecBool   CheckPredeterminedBooleanExprs and consts over a           *)
(*              comparison's SSA operands                                  *)
(*   SpecUnread CheckUnreadVariableValues over one assignment              *)
(*   SpecAppend CheckIneffectiveAppend over the referrers of an append     *)
(*   SpecLoopCond CheckLoopCondition over one for statement                *)
(*   SpecChecks the six SSA-based checks, each on its own inputs           *)
(*   SpecSignal CheckSignalChannelSize over one file's statements          *)
(*   SpecRegistry every identifier of Funcs run over one function          *)
(*   SpecCopy   CheckIneffectiveCopy over one file's expressions           *)
(*   SpecHasRead the hasRead calls for the writes of one block, call by    *)
(*              call; SpecHasReadFair adds that a call that can proceed    *)
(*              does                                                       *)
(*   SpecConsts one query of consts, call by call; SpecConstsFair adds     *)
(*              that a call that can proceed does                          *)
(*   SpecWalk   walkRefs of the append check, call by call; SpecWalkFair   *)
(*              adds that a call that can proceed does                     *)
(*                                                                         *)
(* Every specification starts from one function representation drawn from  *)
(* a bounded family and runs the check on it; `problems` is the list of    *)
(* diagnostics f.Errorf has appended so far.                               *)
(***************************************************************************)
EXTENDS Naturals, Integers, Sequences, FiniteSets, TLC

VARIABLES
    ssafn,      \* the SSA function under analysis: [nil, Blocks]
    ast,        \* the statements of the function body under analysis
    problems,   \* diagnostics emitted so far, in emission order
    pc,         \* position of the check: "start" | "scan" | "report" | "done"
    check,      \* the lint.Func that is run on the representation
    rule,       \* the identifier under which Funcs holds it; "" when the
                \* check is called directly
    recvPtrs,   \* values known to alias the receiver
    reads,      \* block -> reads found in it
    writes,     \* block -> field writes found in it
    cursor,     \* instructions the scan has still to visit: <<block, index>>
    todoBlocks, \* blocks the loop over the writes map has not yet visited
    firstRun,   \* diagnostics of the completed runs of the check
    readStack,  \* the active calls of hasRead, outermost first: [block, i]
    seenBlocks, \* the map `seen` of the loop iteration over one block's writes
    entries,    \* block -> how often hasRead has entered it under this `seen`
    writeOrder, \* the writes of the block that `range writes` has yet to yield
    xs,         \* result of consts for the left operand: [out, ok]
    ys,         \* result of consts for the right operand: [out, ok]
    callStack,  \* the active calls of consts, outermost first: [val, i]
    constsOut,  \* the slice `out` that the running call holds or returned
    phisSeen,   \* the visitedPhis map of the query
    expansions, \* phi -> how often the query has ranged over its operands
    refStack,   \* the active calls of walkRefs, outermost first: [refs, i]
    visited,    \* the map `visited` of the append check
    isUsed,     \* the flag `isUsed` of the append check
    processed   \* the instructions walkRefs has marked visited, in order

readVars == <<readStack, seenBlocks, entries, writeOrder>>

fieldVars == <<recvPtrs, reads, writes, cursor, todoBlocks, firstRun, readVars>>

walkVars == <<refStack, visited, isUsed, processed>>

constVars == <<xs, ys, callStack, constsOut, phisSeen, expansions, walkVars>>

vars == <<ssafn, ast, problems, pc, check, rule, fieldVars, constVars>>

\* The state of the field check while another check runs.
FieldIdle ==
    /\ recvPtrs = {}
    /\ reads = <<>>
    /\ writes = <<>>
    /\ cursor = <<>>
    /\ todoBlocks = {}
    /\ firstRun = <<>>
    /\ readStack = <<>>
    /\ seenBlocks = {}
    /\ entries = <<>>
    /\ writeOrder = <<>>

\* No consts query has been made.
\* The state of walkRefs while the append check is not run call by call.
WalkIdle ==
    /\ refStack = <<>>
    /\ visited = {}
    /\ isUsed = FALSE
    /\ processed = <<>>

ConstStepIdle ==
    /\ callStack = <<>>
    /\ constsOut = <<>>
    /\ phisSeen = {}
    /\ expansions = <<>>
    /\ WalkIdle

ConstIdle ==
    /\ xs = <<>>
    /\ ys = <<>>
    /\ ConstStepIdle

(***************************************************************************)
(* Bounds of the explored inputs.                                          *)
(***************************************************************************)
MaxBlocks == 3
MaxStmts == 5
NumBlocks == 2
MaxEvents == 3
MaxLeaves == 2
MaxInner == 2
MaxEdges == 2
MaxPairs == 3
MaxRefs == 2
MaxInstrs == 3

(***************************************************************************)
(* Generic helpers.                                                        *)
(***************************************************************************)
Range(s) == {s[i] : i \in 1..Len(s)}

(***************************************************************************)
(* SSA representation used by CheckInfiniteRecursion.                      *)
(* A block is [Instrs, Succs]; Blocks[1] is the entry block.               *)
(* An instruction is [op, invoke, callee]:                                 *)
(*   op      "Call" | "Return" | "Jump" | "If" | "Panic"                   *)
(*   invoke  call.Common().IsInvoke()   (interface method call)            *)
(*   callee  "self" (call.Common().Value is the enclosing *ssa.Function),  *)
(*           "other" (another function or a non-function value)            *)
(***************************************************************************)
Instr(op, invoke, callee) == [op |-> op, invoke |-> invoke, callee |-> callee]

Return == Instr("Return", FALSE, "none")
Jump   == Instr("Jump", FALSE, "none")
If     == Instr("If", FALSE, "none")
Panic  == Instr("Panic", FALSE, "none")

CallInstrs ==
    { Instr("Call", FALSE, "self"),
      Instr("Call", FALSE, "other"),
      Instr("Call", TRUE, "self") }

\* The terminator and successor list a block of an n-block function may have
\* (the two successors of an If listed in ascending order).
Terminators(n) ==
    { <<Return, <<>> >>, <<Panic, <<>> >> }
      \cup { <<Jump, <<t>> >> : t \in 1..n }
      \cup { <<If, <<p[1], p[2]>> >> : p \in {q \in (1..n) \X (1..n) : q[1] < q[2]} }

BlockIds(fn) == 1..Len(fn.Blocks)

Succs(fn, b) == Range(fn.Blocks[b].Succs)

Preds(fn, b) == {p \in BlockIds(fn) : b \in Succs(fn, p)}

\* Blocks reachable from the blocks in `from` over successor edges that do
\* not enter a block of `avoid`.
RECURSIVE ReachAvoiding(_, _, _)
ReachAvoiding(fn, from, avoid) ==
    LET next == from \cup
                {s \in BlockIds(fn) \ avoid : \E b \in from : s \in Succs(fn, b)}
    IN  IF next = from THEN from ELSE ReachAvoiding(fn, next, avoid)

Reachable(fn, b) == ReachAvoiding(fn, {b}, {})

\* go/ssa deletes unreachable blocks: every block is reachable from entry.
WellFormedCFG(fn) ==
    Len(fn.Blocks) > 0 => Reachable(fn, 1) = BlockIds(fn)

(***************************************************************************)
(* Dominator sets by the iterative data-flow algorithm:                    *)
(*   Dom(entry) = {entry},  Dom(b) = {b} \cup  /\ {Dom(p) : p \in preds b} *)
(***************************************************************************)
RECURSIVE InterAll(_, _, _)
InterAll(D, ps, all) ==
    IF ps = {} THEN all
    ELSE LET p == CHOOSE x \in ps : TRUE
         IN  D[p] \cap InterAll(D, ps \ {p}, all)

DomStep(fn, D) ==
    [b \in BlockIds(fn) |->
        IF b = 1 THEN {1}
        ELSE {b} \cup InterAll(D, Preds(fn, b), BlockIds(fn))]

RECURSIVE DomFix(_, _)
DomFix(fn, D) ==
    LET D2 == DomStep(fn, D)
    IN  IF D2 = D THEN D ELSE DomFix(fn, D2)

DomSets(fn) == DomFix(fn, [b \in BlockIds(fn) |-> BlockIds(fn)])

\* block.Dominates(b): reflexive dominance.
Dominates(fn, a, b) == a \in DomSets(fn)[b]

(***************************************************************************)
(* CheckInfiniteRecursion                                                  *)
(***************************************************************************)
EndsInReturn(fn, b) ==
    LET ins == fn.Blocks[b].Instrs
    IN  Len(ins) # 0 /\ ins[Len(ins)].op = "Return"

\* Mutants of canReturn: every block is inspected / the call's own block is
\* inspected too.
canReturn_AnyReturn(fn, block) ==
    \E b \in BlockIds(fn) : EndsInReturn(fn, b)

canReturn_StrictDom(fn, block) ==
    \E b \in BlockIds(fn) :
        /\ ~(Dominates(fn, block, b) /\ b # block)
        /\ EndsInReturn(fn, b)

\* canReturn stays false: no block is inspected.
canReturn_Never(fn, block) == FALSE

\* The canReturn loop of a call in `block`.
canReturn(fn, block) ==
    \E b \in BlockIds(fn) :
        /\ ~Dominates(fn, block, b)
        /\ EndsInReturn(fn, b)

\* The guard chain in front of the canReturn loop.
IsDirectSelfCall(ins) ==
    /\ ins.op = "Call"
    /\ ~ins.invoke
    /\ ins.callee = "self"

Diag(pos, msg) == [pos |-> pos, msg |-> msg]

RECURSIVE RecInstrs(_, _, _)
RecInstrs(fn, block, i) ==
    IF i > Len(fn.Blocks[block].Instrs) THEN <<>>
    ELSE (IF IsDirectSelfCall(fn.Blocks[block].Instrs[i]) /\ ~canReturn(fn, block)
          THEN <<Diag(<<block, i>>, "infinite recursive call")>>
          ELSE <<>>)
         \o RecInstrs(fn, block, i + 1)

RECURSIVE RecBlocks(_, _)
RecBlocks(fn, block) ==
    IF block > Len(fn.Blocks) THEN <<>>
    ELSE RecInstrs(fn, block, 1) \o RecBlocks(fn, block + 1)

InfiniteRecursionProblems(fn) ==
    IF fn.nil THEN <<>>
    ELSE IF Len(fn.Blocks) = 0 THEN <<>>
    ELSE RecBlocks(fn, 1)

CheckInfiniteRecursion ==
    /\ check = "CheckInfiniteRecursion"
    /\ pc = "start"
    /\ problems' = problems \o InfiniteRecursionProblems(ssafn)
    /\ pc' = "done"
    /\ UNCHANGED <<rule, constVars, check, ssafn, ast, fieldVars>>

(***************************************************************************)
(* Inputs of SpecRec: functions of up to MaxBlocks blocks, each block a    *)
(* terminator preceded by at most one call; also a missing SSA function    *)
(* and an external function without blocks.                                *)
(***************************************************************************)
MkRecFunction(n, t, cb, call) ==
    [nil |-> FALSE,
     Blocks |-> [b \in 1..n |->
         [Instrs |-> (IF b = cb THEN <<call>> ELSE <<>>) \o <<t[b][1]>>,
          Succs  |-> t[b][2]]]]

InitRec ==
    /\ \/ ssafn \in { [nil |-> TRUE, Blocks |-> <<>>], [nil |-> FALSE, Blocks |-> <<>>] }
       \/ \E n \in 1..MaxBlocks :
            \E t \in [1..n -> Terminators(n)], cb \in 0..n, call \in CallInstrs :
                /\ WellFormedCFG(MkRecFunction(n, t, cb, call))
                /\ ssafn = MkRecFunction(n, t, cb, call)
    /\ ast = <<>>
    /\ problems = <<>>
    /\ pc = "start"
    /\ check = "CheckInfiniteRecursion"
    /\ rule = ""
    /\ FieldIdle
    /\ ConstIdle

NextRec == CheckInfiniteRecursion

SpecRec == InitRec /\ [][NextRec]_vars

(***************************************************************************)
(* Syntax tree used by CheckIneffectiveLoop.                               *)
(* ast[n] = [kind, parent, label] is statement n of the function; the      *)
(* statements are numbered in source order (preorder), parent is the       *)
(* enclosing statement (0: fn.Body itself) and the statements of a body    *)
(* are its children in ascending order.                                    *)
(*   kind   "For"       *ast.ForStmt, or *ast.RangeStmt over a non-map     *)
(*          "RangeMap"  *ast.RangeStmt over a map                          *)
(*          "If"        *ast.IfStmt / SwitchStmt / SelectStmt              *)
(*          "Return" "Break" "Continue" "Goto"  *ast.ReturnStmt/BranchStmt *)
(*          "Expr"      any other simple statement                         *)
(*   label  of a Break/Continue: the label object it names, 0 if none.     *)
(*          The label object declared on statement n is n; a statement is  *)
(*          wrapped in an *ast.LabeledStmt exactly when some branch names  *)
(*          its label (Go rejects unused labels).                          *)
(***************************************************************************)
LoopKinds      == {"For", "RangeMap"}
ContainerKinds == LoopKinds \cup {"If"}
LeafKinds      == {"Return", "Break", "Continue", "Goto", "Expr"}

Stmt(kind, parent, label) == [kind |-> kind, parent |-> parent, label |-> label]

StmtIds(t) == 1..Len(t)

\* n and the statements enclosing it.
RECURSIVE AncestorsOrSelf(_, _)
AncestorsOrSelf(t, n) ==
    IF n = 0 THEN {} ELSE {n} \cup AncestorsOrSelf(t, t[n].parent)

Ancestors(t, n) == AncestorsOrSelf(t, n) \ {n}

\* The statements nested in n, at any depth.
Descendants(t, n) == {m \in StmtIds(t) : n \in Ancestors(t, m)}

\* body.List of statement n: its direct statements in source order.
RECURSIVE ListFrom(_, _, _)
ListFrom(t, n, m) ==
    IF m > Len(t) THEN <<>>
    ELSE (IF t[m].parent = n THEN <<m>> ELSE <<>>) \o ListFrom(t, n, m + 1)

List(t, n) == ListFrom(t, n, 1)

\* The programs of one more statement than t: the new statement goes into
\* the body of the last statement or of one of the statements enclosing it,
\* and a break/continue may name the label of an enclosing loop.
Extend(t) ==
    LET open == {p \in AncestorsOrSelf(t, Len(t)) : t[p].kind \in ContainerKinds}
    IN  UNION { { Append(t, Stmt(k, p, 0)) : k \in ContainerKinds \cup LeafKinds }
                \cup
                { Append(t, Stmt(k, p, l)) :
                    k \in {"Break", "Continue"},
                    l \in {a \in AncestorsOrSelf(t, p) : t[a].kind \in LoopKinds} }
              : p \in open }

\* The front end delivers the function body statement by statement: one
\* outermost loop first, then the statements nested in it, up to MaxStmts.
ParseStmt ==
    /\ check = "CheckIneffectiveLoop"
    /\ pc = "start"
    /\ Len(ast) >= 1
    /\ Len(ast) < MaxStmts
    /\ ast' \in Extend(ast)
    /\ UNCHANGED <<rule, constVars, check, ssafn, problems, pc, fieldVars>>

(***************************************************************************)
(* CheckIneffectiveLoop                                                    *)
(***************************************************************************)
\* labels: label object -> the statement it labels (first ast.Inspect).
labels(t) ==
    [l \in {t[n].label : n \in StmtIds(t)} \ {0} |-> l]

\* Whether statement n is the Stmt of an *ast.LabeledStmt.
IsLabeled(t, n) == n \in DOMAIN labels(t)

\* The dynamic type of a direct statement as the type switch sees it.
StmtType(t, n) == IF IsLabeled(t, n) THEN "Labeled" ELSE t[n].kind

\* Token matching instead of label resolution.
TargetsLoop_AnyLabel(t, stmt, loop) == TRUE

\* stmt.Label == nil || labels[stmt.Label.Obj] == loop
TargetsLoop(t, stmt, loop) ==
    t[stmt].label = 0 \/ labels(t)[t[stmt].label] = loop

\* The loop over body.List: [exit, branching, stop]; exit is the
\* unconditionalExit found so far (0: nil), stop the early `return false`
\* on a continue of this loop.
RECURSIVE ScanList(_, _, _, _, _, _)
ScanList(t, loop, list, i, exit, branching) ==
    IF i > Len(list) THEN [exit |-> exit, branching |-> branching, stop |-> FALSE]
    ELSE LET stmt == list[i]
             ty   == StmtType(t, stmt)
         IN  IF ty = "Break"
             THEN ScanList(t, loop, list, i + 1,
                           IF TargetsLoop(t, stmt, loop) THEN stmt ELSE exit,
                           branching)
             ELSE IF ty = "Continue"
             THEN IF TargetsLoop(t, stmt, loop)
                  THEN [exit |-> 0, branching |-> branching, stop |-> TRUE]
                  ELSE ScanList(t, loop, list, i + 1, exit, branching)
             ELSE IF ty = "Return"
             THEN ScanList(t, loop, list, i + 1, stmt, branching)
             ELSE IF ty \in {"If", "For", "RangeMap"}
             THEN ScanList(t, loop, list, i + 1, exit, TRUE)
             ELSE ScanList(t, loop, list, i + 1, exit, branching)

\* Only a goto resets unconditionalExit.
BodyCancels_GotoOnly(t, loop) ==
    \E n \in Descendants(t, loop) : t[n].kind = "Goto"

\* The second ast.Inspect over the loop body: a goto, or a continue that is
\* unlabeled or names this loop, resets unconditionalExit.
BodyCancels(t, loop) ==
    \E n \in Descendants(t, loop) :
        \/ t[n].kind = "Goto"
        \/ /\ t[n].kind = "Continue"
           /\ ~(t[n].label # 0 /\ labels(t)[t[n].label] # loop)

LoopMsg == "the surrounding loop is unconditionally terminated"

\* The callback answers false after every scan of a body of two or more
\* statements.
DescendsInto_StopAfterScan(t, n) ==
    t[n].kind # "For" \/ Len(List(t, n)) < 2

\* The callback answers true for every node.
DescendsInto_Always(t, n) == TRUE

\* The answer of the ast.Inspect callback for node n: whether the
\* traversal goes on into the node's children.
DescendsInto(t, n) ==
    IF t[n].kind # "For" THEN TRUE
    ELSE IF Len(List(t, n)) < 2 THEN TRUE
    ELSE LET r == ScanList(t, n, List(t, n), 1, 0, FALSE)
         IN  ~r.stop /\ ~(r.exit = 0 \/ ~r.branching)

\* The diagnostic the callback emits at node n.
LoopDiag(t, n) ==
    IF t[n].kind # "For" \/ Len(List(t, n)) < 2 THEN <<>>
    ELSE LET r == ScanList(t, n, List(t, n), 1, 0, FALSE)
         IN  IF r.stop \/ r.exit = 0 \/ ~r.branching \/ BodyCancels(t, n)
             THEN <<>>
             ELSE <<Diag(r.exit, LoopMsg)>>

\* ast.Inspect(fn.Body, ...): preorder, children skipped when the callback
\* answers false.
RECURSIVE Inspect(_, _)
RECURSIVE InspectList(_, _, _)
Inspect(t, n) ==
    LoopDiag(t, n)
    \o (IF DescendsInto(t, n) THEN InspectList(t, List(t, n), 1) ELSE <<>>)

InspectList(t, list, i) ==
    IF i > Len(list) THEN <<>>
    ELSE Inspect(t, list[i]) \o InspectList(t, list, i + 1)

CheckIneffectiveLoop ==
    /\ check = "CheckIneffectiveLoop"
    /\ pc = "start"
    /\ problems' = problems \o InspectList(ast, List(ast, 0), 1)
    /\ pc' = "done"
    /\ UNCHANGED <<rule, constVars, check, ssafn, ast, fieldVars>>

InitLoop ==
    /\ ast \in {<<>>} \cup { <<Stmt(k, 0, 0)>> : k \in LoopKinds }
    /\ ssafn = [nil |-> TRUE, Blocks |-> <<>>]
    /\ problems = <<>>
    /\ pc = "start"
    /\ check = "CheckIneffectiveLoop"
    /\ rule = ""
    /\ FieldIdle
    /\ ConstIdle

NextLoop == ParseStmt \/ CheckIneffectiveLoop

SpecLoop == InitLoop /\ [][NextLoop]_vars

(***************************************************************************)
(* SSA representation used by CheckIneffecitiveFieldAssignments.           *)
(* A value is [kind, name, X, Field, Pos]:                                 *)
(*   kind "Param" | "Alloc" | "Const": a value named `name`                *)
(*   kind "FieldAddr": &X.Field, X the name of the base value, Pos the     *)
(*        source position of the selector                                  *)
(*   kind "UnOp": the load *X, X the name of the loaded address            *)
(* An instruction is [op, tok, Addr, Val, X, Pos]: a Store of Val to Addr, *)
(* or an UnOp tok applied to X.                                            *)
(* Source positions are the indices of the instructions in source order;   *)
(* NoPos is the position of an instruction without one.                    *)
(***************************************************************************)
NoPos == 0

Value(kind, name, X, Field, Pos) ==
    [kind |-> kind, name |-> name, X |-> X, Field |-> Field, Pos |-> Pos]

Base(name) ==
    Value(IF name = "recv" THEN "Param" ELSE IF name = "c" THEN "Const" ELSE "Alloc",
          name, "", 0, NoPos)

recv == Base("recv")

FieldAddr(X, Field, Pos) == Value("FieldAddr", "", X, Field, Pos)

NoValue == Value("None", "", "", 0, NoPos)

Store(Addr, Val) ==
    [op |-> "Store", tok |-> "", Addr |-> Addr, Val |-> Val, X |-> NoValue, Pos |-> NoPos]

UnOp(tok, X, Pos) ==
    [op |-> "UnOp", tok |-> tok, Addr |-> NoValue, Val |-> NoValue, X |-> X, Pos |-> Pos]

\* The value an UnOp instruction is (the key it has in the reads map).
UnOpValue(ins) ==
    Value("UnOp", "", IF ins.X.kind = "FieldAddr" THEN ins.X.X ELSE ins.X.name,
          IF ins.X.kind = "FieldAddr" THEN ins.X.Field ELSE 0, ins.Pos)

\* recv.Type().Underlying().(*types.Struct).Field(i).Name()
FieldName(i) == IF i = 0 THEN "Name" ELSE "Age"

FieldMsg(i) ==
    IF i = 0 THEN "ineffective assignment to field Name"
    ELSE "ineffective assignment to field Age"

\* The instructions a method body is drawn from, by source statement:
\*   W f   t.f = c         R f   use of t.f
\*   L     load of *t, with a position
\*   A     p = &t          LP    load of *p, without a position
EventOps ==
    { <<"W", 0>>, <<"W", 1>>, <<"R", 0>>, <<"R", 1>>,
      <<"L", 0>>, <<"A", 0>>, <<"LP", 0>> }

EventInstr(i, e) ==
    CASE e[1] = "W"  -> Store(FieldAddr("t0", e[2], i), Base("c"))
      [] e[1] = "R"  -> UnOp("MUL", FieldAddr("t0", e[2], i), NoPos)
      [] e[1] = "L"  -> UnOp("MUL", Base("t0"), i)
      [] e[1] = "A"  -> Store(Base("p"), Base("t0"))
      [] e[1] = "LP" -> UnOp("MUL", Base("p"), NoPos)

\* The instructions of block b: the events placed in b, in source order;
\* the entry block starts with the store of the receiver into its alloc.
RECURSIVE BlockInstrs(_, _, _)
BlockInstrs(ev, b, i) ==
    IF i > Len(ev) THEN <<>>
    ELSE (IF ev[i][1] = b THEN <<EventInstr(i, ev[i][2])>> ELSE <<>>)
         \o BlockInstrs(ev, b, i + 1)

\* The successor lists of a block of an n-block function.
SuccLists(n) ==
    { <<>> } \cup { <<a>> : a \in 1..n }
             \cup { <<q[1], q[2]>> : q \in {r \in (1..n) \X (1..n) : r[1] # r[2]} }

MkMethod(n, succ, ev, heap) ==
    [nil    |-> FALSE,
     Params |-> <<recv>>,
     Locals |-> <<[name |-> "t0", Heap |-> heap]>>,
     Blocks |-> [b \in 1..n |->
         [Instrs |-> (IF b = 1 THEN <<Store(Base("t0"), recv)>> ELSE <<>>)
                     \o BlockInstrs(ev, b, 1),
          Succs  |-> succ[b]]]]

\* A method that never takes the address of a local: no allocs at all.
MkMethodNoLocals(n, succ) ==
    [nil    |-> FALSE,
     Params |-> <<recv>>,
     Locals |-> <<>>,
     Blocks |-> [b \in 1..n |-> [Instrs |-> <<>>, Succs |-> succ[b]]]]

(***************************************************************************)
(* ssafn.DomPreorder(): the blocks in preorder of the dominator tree       *)
(* (children in ascending order).                                          *)
(***************************************************************************)
Idom(fn, b) ==
    LET ds == DomSets(fn)[b] \ {b}
    IN  CHOOSE d \in ds : \A x \in ds : x \in DomSets(fn)[d]

DomChildren(fn, d) == {b \in BlockIds(fn) \ {1} : Idom(fn, b) = d}

RECURSIVE Ascending(_)
Ascending(S) ==
    IF S = {} THEN <<>>
    ELSE LET m == CHOOSE x \in S : \A y \in S : x <= y
         IN  <<m>> \o Ascending(S \ {m})

RECURSIVE DomPreorderFrom(_, _)
RECURSIVE DomPreorderList(_, _, _)
DomPreorderFrom(fn, b) ==
    <<b>> \o DomPreorderList(fn, Ascending(DomChildren(fn, b)), 1)

DomPreorderList(fn, list, i) ==
    IF i > Len(list) THEN <<>>
    ELSE DomPreorderFrom(fn, list[i]) \o DomPreorderList(fn, list, i + 1)

DomPreorder(fn) == DomPreorderFrom(fn, 1)

\* The instructions in the order the scan visits them: <<block, index>>.
RECURSIVE ScanOrderFrom(_, _, _)
ScanOrderFrom(fn, blocks, k) ==
    IF k > Len(blocks) THEN <<>>
    ELSE [i \in 1..Len(fn.Blocks[blocks[k]].Instrs) |-> <<blocks[k], i>>]
         \o ScanOrderFrom(fn, blocks, k + 1)

ScanOrder(fn) == ScanOrderFrom(fn, DomPreorder(fn), 1)

(***************************************************************************)
(* CheckIneffecitiveFieldAssignments                                       *)
(***************************************************************************)
\* Every store makes its address an alias.
AliasAfter_AnyStore(ptrs, ins) ==
    IF ins.op = "Store" THEN ptrs \cup {ins.Addr} ELSE ptrs

\* if recvPtrs[ins.Val] { recvPtrs[ins.Addr] = true }
AliasAfter(ptrs, ins) ==
    IF ins.op = "Store" /\ ins.Val \in ptrs THEN ptrs \cup {ins.Addr} ELSE ptrs

\* The field writes an instruction adds to writes[block].
WritesOf(ptrs, ins) ==
    IF /\ ins.op = "Store"
       /\ ins.Addr.kind = "FieldAddr"
       /\ Base(ins.Addr.X) \in ptrs
    THEN {ins.Addr} ELSE {}

\* The reads an instruction adds to reads[block].
ReadsOf(ptrs, ins) ==
    IF ins.op # "UnOp" \/ ins.tok # "MUL" THEN {}
    ELSE IF ins.X \in ptrs THEN {UnOpValue(ins)}
    ELSE IF ins.X.kind = "FieldAddr" /\ Base(ins.X.X) \in ptrs THEN {ins.X}
    ELSE {}

\* The guards in front of the scan.
FieldCheckSkips(fn) ==
    \/ fn.nil
    \/ Len(fn.Blocks) = 0
    \/ Len(fn.Locals) = 0
    \/ fn.Locals[1].Heap

\* The entry of the check: the guards, then the maps of a fresh run.
BeginFieldCheck ==
    /\ check = "CheckIneffecitiveFieldAssignments"
    /\ pc = "start"
    /\ IF FieldCheckSkips(ssafn)
       THEN /\ pc' = "done"
            /\ UNCHANGED <<recvPtrs, reads, writes, cursor, todoBlocks>>
       ELSE /\ recvPtrs' = {recv}
            /\ reads' = [b \in BlockIds(ssafn) |-> {}]
            /\ writes' = [b \in BlockIds(ssafn) |-> {}]
            /\ cursor' = ScanOrder(ssafn)
            /\ pc' = "scan"
            /\ todoBlocks' = BlockIds(ssafn)
    /\ UNCHANGED <<rule, constVars, readVars, check, ssafn, ast, problems, firstRun>>

\* One instruction of the loop over ssafn.DomPreorder() and block.Instrs.
ScanInstr ==
    /\ check = "CheckIneffecitiveFieldAssignments"
    /\ pc = "scan"
    /\ LET block == Head(cursor)[1]
           ins   == ssafn.Blocks[block].Instrs[Head(cursor)[2]]
           ptrs  == AliasAfter(recvPtrs, ins)
       IN  /\ recvPtrs' = ptrs
           /\ writes' = [writes EXCEPT ![block] = @ \cup WritesOf(ptrs, ins)]
           /\ reads' = [reads EXCEPT ![block] = @ \cup ReadsOf(ptrs, ins)]
           /\ cursor' = Tail(cursor)
           /\ pc' = IF Tail(cursor) = <<>> THEN "report" ELSE "scan"
    /\ UNCHANGED <<rule, constVars, readVars, check, ssafn, ast, problems, todoBlocks, firstRun>>

\* The test of one read of a block against a write.
ReadMatches(read, write) ==
    IF read.kind = "FieldAddr"
    THEN read.Field = write.Field /\ read.Pos > write.Pos
    ELSE read.Pos >= write.Pos

\* hasRead(block, write) with the blocks in `sn` already seen:
\* [found, seen] is the answer and the blocks seen afterwards.
RECURSIVE hasRead(_, _, _, _, _)
RECURSIVE hasReadSuccs(_, _, _, _, _, _)
hasRead(fn, rd, block, write, sn) ==
    IF \E read \in rd[block] : ReadMatches(read, write)
    THEN [found |-> TRUE, seen |-> sn \cup {block}]
    ELSE hasReadSuccs(fn, rd, fn.Blocks[block].Succs, 1, write, sn \cup {block})

hasReadSuccs(fn, rd, succs, i, write, sn) ==
    IF i > Len(succs) THEN [found |-> FALSE, seen |-> sn]
    ELSE IF succs[i] \in sn
         THEN hasReadSuccs(fn, rd, succs, i + 1, write, sn)
         ELSE LET r == hasRead(fn, rd, succs[i], write, sn)
              IN  IF r.found THEN r
                  ELSE hasReadSuccs(fn, rd, succs, i + 1, write, r.seen)

\* The visited set a write starts from: `seen` is declared once per block
\* and the hasRead calls of all writes of the block go on filling it.
SeenForWrite(sn) == sn

\* for write := range writes: the writes of one block in the order `order`,
\* the visited set so far being sn.
RECURSIVE CheckWrites(_, _, _, _, _, _)
CheckWrites(fn, rd, block, order, i, sn) ==
    IF i > Len(order) THEN <<>>
    ELSE LET r == hasRead(fn, rd, block, order[i], SeenForWrite(sn))
         IN  (IF r.found THEN <<>>
              ELSE <<Diag(order[i].Pos, FieldMsg(order[i].Field))>>)
             \o CheckWrites(fn, rd, block, order, i + 1, r.seen)

\* The orders in which a range over a map with key set S may yield the keys.
RECURSIVE Orders(_)
Orders(S) ==
    IF S = {} THEN {<<>>}
    ELSE UNION { { <<x>> \o o : o \in Orders(S \ {x}) } : x \in S }

\* for block, writes := range writes: one iteration, for the next block the
\* map yields (any order) with a fresh `seen`, its writes in any order.
RangeWrites ==
    /\ check = "CheckIneffecitiveFieldAssignments"
    /\ pc = "report"
    /\ \E block \in todoBlocks :
         \E order \in Orders(writes[block]) :
            /\ problems' = problems \o CheckWrites(ssafn, reads, block, order, 1, {})
            /\ todoBlocks' = todoBlocks \ {block}
            /\ pc' = IF todoBlocks' = {} THEN "done" ELSE "report"
    /\ UNCHANGED <<rule, constVars, readVars, check, ssafn, ast, recvPtrs, reads, writes, cursor, firstRun>>

\* The check is run once more on the same representation.
RunAgain ==
    /\ check = "CheckIneffecitiveFieldAssignments"
    /\ pc = "done"
    /\ firstRun = <<>>
    /\ firstRun' = <<problems>>
    /\ problems' = <<>>
    /\ pc' = "start"
    /\ recvPtrs' = {}
    /\ reads' = <<>>
    /\ writes' = <<>>
    /\ cursor' = <<>>
    /\ todoBlocks' = {}
    /\ UNCHANGED <<rule, constVars, readVars, check, ssafn, ast>>

(***************************************************************************)
(* Inputs of SpecField: methods of up to NumBlocks blocks holding up to    *)
(* MaxEvents field and alias instructions, the receiver's alloc on the     *)
(* stack or escaped to the heap; and methods without locals.               *)
(***************************************************************************)
\* FuncValue finds no function for the method, or one without blocks.
MkMethodMissing(isNil) ==
    [nil |-> isNil, Params |-> <<>>, Locals |-> <<>>, Blocks |-> <<>>]

InitField ==
    /\ \/ ssafn \in {MkMethodMissing(b) : b \in BOOLEAN}
       \/ \E n \in 1..NumBlocks :
            \E succ \in [1..n -> SuccLists(n)] :
               \/ /\ WellFormedCFG(MkMethodNoLocals(n, succ))
                  /\ ssafn = MkMethodNoLocals(n, succ)
               \/ \E k \in 0..MaxEvents :
                    \E ev \in [1..k -> (1..n) \X EventOps], heap \in BOOLEAN :
                       /\ WellFormedCFG(MkMethod(n, succ, ev, heap))
                       /\ ssafn = MkMethod(n, succ, ev, heap)
    /\ ast = <<>>
    /\ problems = <<>>
    /\ pc = "start"
    /\ check = "CheckIneffecitiveFieldAssignments"
    /\ rule = ""
    /\ FieldIdle
    /\ ConstIdle

NextField ==
    \/ BeginFieldCheck
    \/ ScanInstr
    \/ RangeWrites
    \/ RunAgain

SpecField == InitField /\ [][NextField]_vars

(***************************************************************************)
(* SSA values used by consts and CheckPredeterminedBooleanExprs.           *)
(* ssafn.Values[v] = [kind, Value, Operands] is value v of the function:   *)
(*   kind      "Const" | "Convert" | "Phi" | "Other" (any other value)     *)
(*   Value     of a Const: its constant.Value, NilConst or IntConst(n)     *)
(*   Operands  of a Convert: <<X>>; of a Phi: its edges                    *)
(* The site is ast = [Op, X, Y, isBinOp]: the operator of the              *)
(* *ast.BinaryExpr, the operands of its *ssa.BinOp, and whether            *)
(* ValueForExpr found a BinOp for it at all.                               *)
(***************************************************************************)
SSAValue(kind, val, operands) ==
    [kind |-> kind, Value |-> val, Operands |-> operands]

\* constant.Value: nil (the nil constant of a pointer-like type) or an
\* integer.
NilConst == [isNil |-> TRUE, n |-> 0]

IntConst(n) == [isNil |-> FALSE, n |-> n]

CompareOps == {"GTR", "LSS", "EQL", "NEQ", "LEQ", "GEQ"}

\* constant.Compare(x, op, y) on integer constants.
Compare(x, op, y) ==
    CASE op = "GTR" -> x > y
      [] op = "LSS" -> x < y
      [] op = "EQL" -> x = y
      [] op = "NEQ" -> x # y
      [] op = "LEQ" -> x <= y
      [] op = "GEQ" -> x >= y

(***************************************************************************)
(* consts                                                                  *)
(***************************************************************************)
\* The tail of consts: consecutive entries of equal Value are merged.
RECURSIVE uniqFrom(_, _, _, _)
uniqFrom(g, out, i, acc) ==
    IF i > Len(out) THEN acc
    ELSE IF g[out[i]].Value = g[acc[Len(acc)]].Value
         THEN uniqFrom(g, out, i + 1, acc)
         ELSE uniqFrom(g, out, i + 1, Append(acc, out[i]))

uniq(g, out) ==
    IF Len(out) < 2 THEN out ELSE uniqFrom(g, out, 2, <<out[1]>>)

\* return nil, false
constsFail(visitedPhis) == [out |-> <<>>, ok |-> FALSE, visitedPhis |-> visitedPhis]

RECURSIVE consts(_, _, _, _)
RECURSIVE constsEdges(_, _, _, _, _)

\* Only the first edge of a phi is followed.
constsEdges_FirstOnly(g, vals, i, out, visitedPhis) ==
    IF Len(vals) = 0 THEN [out |-> out, ok |-> TRUE, visitedPhis |-> visitedPhis]
    ELSE consts(g, vals[1], out, visitedPhis)

\* consts(val, out, visitedPhis): [out, ok] and the visitedPhis map, which
\* the callee shares with its caller.
consts(g, val, out, visitedPhis) ==
    LET v == g[val]
        done(o, vis) == [out |-> uniq(g, o), ok |-> TRUE, visitedPhis |-> vis]
    IN  CASE v.kind = "Phi" ->
               IF val \in visitedPhis THEN done(out, visitedPhis)
               ELSE LET r == constsEdges(g, v.Operands, 1, out,
                                         visitedPhis \cup {val})
                    IN  IF r.ok THEN done(r.out, r.visitedPhis)
                        ELSE constsFail(r.visitedPhis)
          [] v.kind = "Const" -> done(Append(out, val), visitedPhis)
          [] v.kind = "Convert" ->
               LET r == consts(g, v.Operands[1], out, visitedPhis)
               IN  IF r.ok THEN done(r.out, r.visitedPhis)
                   ELSE constsFail(r.visitedPhis)
          [] OTHER -> constsFail(visitedPhis)

\* for _, phival := range vals { out, ok = consts(*phival, out, visitedPhis) }
constsEdges(g, vals, i, out, visitedPhis) ==
    IF i > Len(vals) THEN [out |-> out, ok |-> TRUE, visitedPhis |-> visitedPhis]
    ELSE LET r == consts(g, vals[i], out, visitedPhis)
         IN  IF r.ok THEN constsEdges(g, vals, i + 1, r.out, r.visitedPhis)
             ELSE constsFail(r.visitedPhis)

\* consts(x, nil, nil) as the caller sees it.
constsOf(g, val) ==
    LET r == consts(g, val, <<>>, {}) IN [out |-> r.out, ok |-> r.ok]

(***************************************************************************)
(* CheckPredeterminedBooleanExprs                                          *)
(***************************************************************************)
\* The constant values of a consts result, in order.
ConstValuesOf(g, out) == [i \in 1..Len(out) |-> g[out[i]].Value]

\* The nested loops over xs and ys: the pairs that count as true.
TruePairs(g, xo, op, yo) ==
    {p \in (1..Len(xo)) \X (1..Len(yo)) :
        LET x == g[xo[p[1]]].Value
            y == g[yo[p[2]]].Value
        IN  IF x = NilConst THEN y = NilConst ELSE Compare(x.n, op, y.n)}

\* A comparison that counts as true when it holds for some pair.
IsPredetermined_AnyTrue(trues, n) == trues # 0

\* trues == 0 || trues == len(xs)*len(ys)
IsPredetermined(trues, n) == trues = 0 \/ trues = n

BoolDiag(b, xv, op, yv) ==
    Diag("binop", [text |-> "is always %t for all possible values",
                   b |-> b, xs |-> xv, op |-> op, ys |-> yv])

\* The guards in front of the consts queries.
BoolCheckSkips(fn, site) ==
    \/ site.Op \notin CompareOps
    \/ fn.nil
    \/ ~site.isBinOp

\* The callback up to and including the two consts queries.
ResolveOperands ==
    /\ check = "CheckPredeterminedBooleanExprs"
    /\ pc = "start"
    /\ IF BoolCheckSkips(ssafn, ast)
       THEN pc' = "done" /\ UNCHANGED constVars
       ELSE /\ xs' = constsOf(ssafn.Values, ast.X)
            /\ ys' = constsOf(ssafn.Values, ast.Y)
            /\ pc' = "compare"
            /\ UNCHANGED <<callStack, constsOut, phisSeen, expansions>>
    /\ UNCHANGED <<rule, check, ssafn, ast, problems, fieldVars, walkVars>>

\* The callback from the test of the query results to its end.
CompareAll ==
    /\ check = "CheckPredeterminedBooleanExprs"
    /\ pc = "compare"
    /\ pc' = "done"
    /\ IF ~xs.ok \/ ~ys.ok \/ Len(xs.out) = 0 \/ Len(ys.out) = 0
       THEN problems' = problems
       ELSE LET g     == ssafn.Values
                trues == Cardinality(TruePairs(g, xs.out, ast.Op, ys.out))
            IN  IF IsPredetermined(trues, Len(xs.out) * Len(ys.out))
                THEN problems' = Append(problems,
                        BoolDiag(trues # 0, ConstValuesOf(g, xs.out), ast.Op,
                                 ConstValuesOf(g, ys.out)))
                ELSE problems' = problems
    /\ UNCHANGED <<rule, check, ssafn, ast, constVars, fieldVars>>

(***************************************************************************)
(* Inputs of SpecBool: value graphs of up to MaxLeaves constants or other  *)
(* values followed by up to MaxInner conversions and phis of up to         *)
(* MaxEdges edges.  The operand of a conversion is defined before it; the  *)
(* edges of a phi may lead anywhere.  The constants of one graph are all   *)
(* integers or all nil (the operands of a comparison have one type).       *)
(***************************************************************************)
LeafValues(nilTyped) ==
    IF nilTyped THEN {SSAValue("Const", NilConst, <<>>),
                      SSAValue("Other", NilConst, <<>>)}
    ELSE {SSAValue("Const", IntConst(1), <<>>), SSAValue("Const", IntConst(2), <<>>),
          SSAValue("Other", NilConst, <<>>)}

InnerValues(n) ==
    {SSAValue("Convert", NilConst, <<x>>) : x \in 1..n}
    \cup UNION { {SSAValue("Phi", NilConst, e) : e \in [1..k -> 1..n]} : k \in 1..MaxEdges }

\* A conversion converts a value defined before it.
WellFormedValues(g) ==
    \A v \in 1..Len(g) : g[v].kind = "Convert" => g[v].Operands[1] < v

\* The values reached from the values in `from` over operand edges.
RECURSIVE ValuesFrom(_, _)
ValuesFrom(g, from) ==
    LET next == from \cup UNION {Range(g[v].Operands) : v \in from}
    IN  IF next = from THEN from ELSE ValuesFrom(g, next)

BinarySite(op, x, y, isBinOp) == [Op |-> op, X |-> x, Y |-> y, isBinOp |-> isBinOp]

MkValueFunction(isNil, g) == [nil |-> isNil, Values |-> g]

\* The comparison sites of a graph: every inner value is an operand,
\* directly or not, of the comparison.
SitesOf(g, nl) ==
    {q \in (1..Len(g)) \X (1..Len(g)) :
        (nl + 1)..Len(g) \subseteq ValuesFrom(g, {q[1], q[2]})}

InitBool ==
    /\ \E nl \in 1..MaxLeaves, ni \in 0..MaxInner, nilTyped \in BOOLEAN :
         \E leaves \in [1..nl -> LeafValues(nilTyped)],
            inner \in [1..ni -> InnerValues(nl + ni)] :
            /\ WellFormedValues(leaves \o inner)
            /\ \E q \in SitesOf(leaves \o inner, nl) :
                 \/ /\ ssafn = MkValueFunction(FALSE, leaves \o inner)
                    /\ \E op \in CompareOps :
                         ast = BinarySite(op, q[1], q[2], TRUE)
                 \/ /\ ni = 0
                    /\ \E isNil \in BOOLEAN, isBinOp \in BOOLEAN :
                         /\ ssafn = MkValueFunction(isNil, leaves \o inner)
                         /\ ast \in {BinarySite(op, q[1], q[2], isBinOp) :
                                       op \in CompareOps \cup {"ADD"}}
    /\ problems = <<>>
    /\ pc = "start"
    /\ check = "CheckPredeterminedBooleanExprs"
    /\ rule = ""
    /\ FieldIdle
    /\ ConstIdle

NextBool == ResolveOperands \/ CompareAll

SpecBool == InitBool /\ [][NextBool]_vars

(***************************************************************************)
(* CheckUnreadVariableValues                                               *)
(* The site is one *ast.AssignStmt, ast = [Lhs, Rhs]:                      *)
(*   Lhs[i]  "ident" | "_" | "other" (a destination that is no identifier) *)
(*   Rhs[i]  [hasValue, refs]: whether ssafn.ValueForExpr finds a value    *)
(*           for the expression and that value's Referrers(): NilRefs or   *)
(*           a list of instruction kinds, "DebugRef" or "Use"              *)
(***************************************************************************)
NilRefs == [isNil |-> TRUE, list |-> <<>>]

Refs(list) == [isNil |-> FALSE, list |-> list]

RhsExpr(hasValue, refs) == [hasValue |-> hasValue, refs |-> refs]

\* filterDebug: the instructions that are no *ssa.DebugRef.
filterDebug(instr) == SelectSeq(instr, LAMBDA ins : ins # "DebugRef")

UnreadDiag(i) ==
    Diag("assign", [text |-> "this value of %s is never used", lhs |-> i])

\* The loop over assign.Lhs from pair i on; `return true` inside the loop
\* ends it.
RECURSIVE UnreadPairs(_, _)
UnreadPairs(assign, i) ==
    IF i > Len(assign.Lhs) THEN <<>>
    ELSE LET lhs == assign.Lhs[i]
             rhs == assign.Rhs[i]
         IN  IF lhs # "ident" THEN UnreadPairs(assign, i + 1)
             ELSE IF ~rhs.hasValue THEN UnreadPairs(assign, i + 1)
             ELSE IF rhs.refs.isNil THEN <<>>
             ELSE (IF Len(filterDebug(rhs.refs.list)) = 0
                   THEN <<UnreadDiag(i)>> ELSE <<>>)
                  \o UnreadPairs(assign, i + 1)

CheckUnreadVariableValues ==
    /\ check = "CheckUnreadVariableValues"
    /\ pc = "start"
    /\ pc' = "done"
    /\ problems' =
          IF ssafn.nil \/ Len(ast.Lhs) # Len(ast.Rhs) THEN problems
          ELSE problems \o UnreadPairs(ast, 1)
    /\ UNCHANGED <<rule, check, ssafn, ast, fieldVars, constVars>>

(***************************************************************************)
(* Inputs of SpecUnread: assignments of up to MaxPairs destinations and    *)
(* expressions, the referrer lists up to MaxRefs instructions long.        *)
(***************************************************************************)
RefLists == UNION {[1..k -> {"DebugRef", "Use"}] : k \in 0..MaxRefs}

RhsExprs ==
    {RhsExpr(FALSE, NilRefs), RhsExpr(TRUE, NilRefs)}
    \cup {RhsExpr(TRUE, Refs(l)) : l \in RefLists}

InitUnread ==
    /\ \E nl \in 1..MaxPairs, nr \in 1..MaxPairs :
         /\ nl # nr => nr = 1
         /\ \E lhs \in [1..nl -> {"ident", "_", "other"}],
               rhs \in [1..nr -> RhsExprs] :
               ast = [Lhs |-> lhs, Rhs |-> rhs]
    /\ ssafn \in {[nil |-> b] : b \in BOOLEAN}
    /\ problems = <<>>
    /\ pc = "start"
    /\ check = "CheckUnreadVariableValues"
    /\ rule = ""
    /\ FieldIdle
    /\ ConstIdle

NextUnread == CheckUnreadVariableValues

SpecUnread == InitUnread /\ [][NextUnread]_vars

(***************************************************************************)
(* CheckIneffectiveAppend                                                  *)
(* ssafn.Instrs[n] = [kind, Referrers] is instruction n of the function:   *)
(*   kind  "Append"    *ssa.Call of the builtin append                     *)
(*         "Phi"       *ssa.Phi                                            *)
(*         "DebugRef"  *ssa.DebugRef                                       *)
(*         "Value"     any other instruction that is an ssa.Value          *)
(*         "Instr"     an instruction that is no value (Store, Return...)  *)
(*   Referrers  of a value: the instructions that use it, in order         *)
(* Instruction 1 is the append call of the assignment.  The site is        *)
(* ast = [single, lhs, isAppendCall, namedResult, hasValue, refsNil].      *)
(***************************************************************************)
SSAInstr(kind, referrers) == [kind |-> kind, Referrers |-> referrers]

AppendSite(single, lhs, isAppendCall, namedResult, hasValue, refsNil) ==
    [single |-> single, lhs |-> lhs, isAppendCall |-> isAppendCall,
     namedResult |-> namedResult, hasValue |-> hasValue, refsNil |-> refsNil]

\* No instruction counts as an append call.
isAppend_Never(ins) == FALSE

\* isAppend: a non-invoke call of the builtin named append.
isAppend(ins) == ins.kind = "Append"

\* walkRefs(refs) from index i on, st = [isUsed, visited] being the two
\* variables the closure shares with its caller.
RECURSIVE walkRefs(_, _, _, _)
walkRefs(g, refs, i, st) ==
    IF i > Len(refs) THEN st
    ELSE LET ref  == refs[i]
             seen == [st EXCEPT !.visited = @ \cup {ref}]
         IN  IF ref \in st.visited THEN walkRefs(g, refs, i + 1, st)
             ELSE IF g[ref].kind = "DebugRef" THEN walkRefs(g, refs, i + 1, seen)
             ELSE IF g[ref].kind = "Phi"
             THEN walkRefs(g, refs, i + 1, walkRefs(g, g[ref].Referrers, 1, seen))
             ELSE IF g[ref].kind \in {"Append", "Value"}
             THEN IF ~isAppend(g[ref])
                  THEN walkRefs(g, refs, i + 1, [seen EXCEPT !.isUsed = TRUE])
                  ELSE walkRefs(g, refs, i + 1,
                                walkRefs(g, g[ref].Referrers, 1, seen))
             ELSE [seen EXCEPT !.isUsed = TRUE]

AppendMsg == "this result of append is never used, except maybe in other appends"

\* The walk starts without a look at the referrer list.
AppendCheckSkips_NoRefsTest(fn, site) ==
    \/ ~site.single
    \/ site.lhs # "ident"
    \/ ~site.isAppendCall
    \/ fn.nil
    \/ site.namedResult
    \/ ~site.hasValue

\* The guards in front of the walk.
AppendCheckSkips(fn, site) ==
    \/ ~site.single
    \/ site.lhs # "ident"
    \/ ~site.isAppendCall
    \/ fn.nil
    \/ site.namedResult
    \/ ~site.hasValue
    \/ site.refsNil

CheckIneffectiveAppend ==
    /\ check = "CheckIneffectiveAppend"
    /\ pc = "start"
    /\ pc' = "done"
    /\ problems' =
          IF AppendCheckSkips(ssafn, ast) THEN problems
          ELSE IF walkRefs(ssafn.Instrs, ssafn.Instrs[1].Referrers, 1,
                           [isUsed |-> FALSE, visited |-> {}]).isUsed
               THEN problems
               ELSE Append(problems, Diag("assign", AppendMsg))
    /\ UNCHANGED <<rule, check, ssafn, ast, fieldVars, constVars>>

(***************************************************************************)
(* Inputs of SpecAppend: the append call and up to MaxInstrs - 1 other     *)
(* instructions, referrer lists of up to MaxRefs instructions; and, on a   *)
(* call nobody refers to, every combination of the guards.                 *)
(***************************************************************************)
ReferrerLists(n) == UNION {[1..k -> 1..n] : k \in 0..MaxRefs}

OtherInstrs(n) ==
    {SSAInstr(k, <<>>) : k \in {"DebugRef", "Value", "Instr"}}
    \cup {SSAInstr(k, l) : k \in {"Phi", "Append"}, l \in ReferrerLists(n)}

MkInstrFunction(isNil, g) == [nil |-> isNil, Instrs |-> g]

InitAppend ==
    /\ \/ /\ \E n \in 1..MaxInstrs :
               \E l \in ReferrerLists(n), others \in [2..n -> OtherInstrs(n)] :
                  ssafn = MkInstrFunction(FALSE,
                             [i \in 1..n |-> IF i = 1 THEN SSAInstr("Append", l)
                                             ELSE others[i]])
          /\ ast = AppendSite(TRUE, "ident", TRUE, FALSE, TRUE, FALSE)
       \/ /\ ssafn \in {MkInstrFunction(b, <<SSAInstr("Append", <<>>)>>) :
                          b \in BOOLEAN}
          /\ \E single, isAppendCall, namedResult, hasValue, refsNil \in BOOLEAN :
               \E lhs \in {"ident", "_", "other"} :
                  ast = AppendSite(single, lhs, isAppendCall, namedResult,
                                   hasValue, refsNil)
    /\ problems = <<>>
    /\ pc = "start"
    /\ check = "CheckIneffectiveAppend"
    /\ rule = ""
    /\ FieldIdle
    /\ ConstIdle

NextAppend == CheckIneffectiveAppend

SpecAppend == InitAppend /\ [][NextAppend]_vars

(***************************************************************************)
(* walkRefs call by call.  refStack holds the active calls of the closure, *)
(* outermost first, each with the slice it ranges over and the index of    *)
(* the element the loop comes to next; visited and isUsed are the two      *)
(* variables the closure captures.  The site passes the guards in front    *)
(* of the walk.                                                            *)
(***************************************************************************)
RefFrame(refs, i) == [refs |-> refs, i |-> i]

TopRef == refStack[Len(refStack)]

\* The loop of the innermost call moves on to index i.
MoveTop(i) == [refStack EXCEPT ![Len(refStack)].i = i]

\* The map stays as it was.
VisitRef_Forgets(seen, ref) == seen

\* visited[ref] = true
VisitRef(seen, ref) == seen \cup {ref}

\* walkRefs(*refs) on the referrers of the append call's value.
WalkRefsCall ==
    /\ check = "walkRefs"
    /\ pc = "start"
    /\ refStack' = <<RefFrame(ssafn.Instrs[1].Referrers, 1)>>
    /\ pc' = "walk"
    /\ UNCHANGED <<rule, check, ssafn, ast, problems, fieldVars, xs, ys,
                   callStack, constsOut, phisSeen, expansions,
                   visited, isUsed, processed>>

\* One iteration of `for _, ref := range refs` in the innermost call.
WalkRefsVisit ==
    /\ check = "walkRefs"
    /\ pc = "walk"
    /\ refStack # <<>>
    /\ TopRef.i <= Len(TopRef.refs)
    /\ LET ref  == TopRef.refs[TopRef.i]
           ins  == ssafn.Instrs[ref]
           next == MoveTop(TopRef.i + 1)
       IN  IF ref \in visited
           THEN /\ refStack' = next
                /\ UNCHANGED <<visited, isUsed, processed>>
           ELSE /\ visited' = VisitRef(visited, ref)
                /\ processed' = Append(processed, ref)
                /\ CASE ins.kind = "DebugRef" ->
                          /\ refStack' = next
                          /\ UNCHANGED isUsed
                     [] ins.kind = "Phi" ->
                          /\ refStack' = Append(next, RefFrame(ins.Referrers, 1))
                          /\ UNCHANGED isUsed
                     [] ins.kind \in {"Append", "Value"} /\ isAppend(ins) ->
                          /\ refStack' = Append(next, RefFrame(ins.Referrers, 1))
                          /\ UNCHANGED isUsed
                     [] ins.kind \in {"Append", "Value"} /\ ~isAppend(ins) ->
                          /\ refStack' = next
                          /\ isUsed' = TRUE
                     [] OTHER ->
                          /\ refStack' = MoveTop(Len(TopRef.refs) + 1)
                          /\ isUsed' = TRUE
    /\ UNCHANGED <<rule, check, ssafn, ast, problems, pc, fieldVars, xs, ys,
                   callStack, constsOut, phisSeen, expansions>>

\* The innermost call has left its loop and returns.
WalkRefsReturn ==
    /\ check = "walkRefs"
    /\ pc = "walk"
    /\ refStack # <<>>
    /\ TopRef.i > Len(TopRef.refs)
    /\ refStack' = SubSeq(refStack, 1, Len(refStack) - 1)
    /\ UNCHANGED <<rule, check, ssafn, ast, problems, pc, fieldVars, xs, ys,
                   callStack, constsOut, phisSeen, expansions,
                   visited, isUsed, processed>>

\* The outermost call has returned: `if !isUsed { f.Errorf(...) }`.
WalkRefsReport ==
    /\ check = "walkRefs"
    /\ pc = "walk"
    /\ refStack = <<>>
    /\ problems' = IF isUsed THEN problems
                   ELSE Append(problems, Diag("assign", AppendMsg))
    /\ pc' = "done"
    /\ UNCHANGED <<rule, check, ssafn, ast, fieldVars, constVars>>

\* Inputs of SpecWalk: the referrer graphs of SpecAppend.
InitWalk ==
    /\ \E n \in 1..MaxInstrs :
         \E l \in ReferrerLists(n), others \in [2..n -> OtherInstrs(n)] :
            ssafn = MkInstrFunction(FALSE,
                       [i \in 1..n |-> IF i = 1 THEN SSAInstr("Append", l)
                                       ELSE others[i]])
    /\ ast = AppendSite(TRUE, "ident", TRUE, FALSE, TRUE, FALSE)
    /\ problems = <<>>
    /\ pc = "start"
    /\ check = "walkRefs"
    /\ rule = ""
    /\ FieldIdle
    /\ ConstIdle

NextWalk ==
    \/ WalkRefsCall
    \/ WalkRefsVisit
    \/ WalkRefsReturn
    \/ WalkRefsReport

SpecWalk == InitWalk /\ [][NextWalk]_vars

\* A call of walkRefs that can take its next step takes it.
SpecWalkFair == SpecWalk /\ WF_vars(NextWalk)

(***************************************************************************)
(* CheckLoopCondition                                                      *)
(* The site is one *ast.ForStmt, ast = [hasInit, hasCond, hasPost, init,   *)
(* condIsBinary, xIsIdent, lhsIsIdent, sameObj, postIsIncDec]; init is     *)
(* "assign" (an assignment of one expression to one destination),          *)
(* "assignN" (another assignment) or "other".  ssafn.v = [hasValue,        *)
(* isAddr, kind] is what ssafn.ValueForExpr(cond.X) returns.               *)
(***************************************************************************)
ForSite(hasInit, hasCond, hasPost, init, condIsBinary, xIsIdent, lhsIsIdent, sameObj, postIsIncDec) ==
    [hasInit |-> hasInit, hasCond |-> hasCond, hasPost |-> hasPost,
     init |-> init, condIsBinary |-> condIsBinary, xIsIdent |-> xIsIdent,
     lhsIsIdent |-> lhsIsIdent, sameObj |-> sameObj,
     postIsIncDec |-> postIsIncDec]

ExprValue(hasValue, isAddr, kind) ==
    [hasValue |-> hasValue, isAddr |-> isAddr, kind |-> kind]

\* The syntactic guards of the loop.
LoopCondSyntaxSkips(loop) ==
    \/ ~loop.hasInit \/ ~loop.hasCond \/ ~loop.hasPost
    \/ loop.init # "assign"
    \/ ~loop.condIsBinary
    \/ ~loop.xIsIdent
    \/ ~loop.lhsIsIdent
    \/ ~loop.sameObj
    \/ ~loop.postIsIncDec

\* Only a phi counts as a variable that changes.
LoopCondValueSkips_PhiOnly(fn) ==
    fn.nil \/ fn.v.kind = "Phi"

\* The guards on the SSA function and on the value of cond.X.
LoopCondValueSkips(fn) ==
    \/ fn.nil
    \/ ~fn.v.hasValue
    \/ fn.v.isAddr
    \/ fn.v.kind \in {"Phi", "UnOp"}

LoopCondMsg == "variable in loop condition never changes"

CheckLoopCondition ==
    /\ check = "CheckLoopCondition"
    /\ pc = "start"
    /\ pc' = "done"
    /\ problems' =
          IF LoopCondSyntaxSkips(ast) \/ LoopCondValueSkips(ssafn) THEN problems
          ELSE Append(problems, Diag("cond", LoopCondMsg))
    /\ UNCHANGED <<rule, check, ssafn, ast, fieldVars, constVars>>

(***************************************************************************)
(* Inputs of SpecLoopCond: every combination of the guards.                *)
(***************************************************************************)
ExprValues ==
    {ExprValue(FALSE, FALSE, "Other")}
    \cup {ExprValue(TRUE, a, k) : a \in BOOLEAN, k \in {"Phi", "UnOp", "Other"}}

InitLoopCond ==
    /\ \E hasInit, hasCond, hasPost, condIsBinary, xIsIdent, lhsIsIdent,
          sameObj, postIsIncDec \in BOOLEAN :
          \E init \in {"assign", "assignN", "other"} :
             ast = ForSite(hasInit, hasCond, hasPost, init, condIsBinary,
                           xIsIdent, lhsIsIdent, sameObj, postIsIncDec)
    /\ ssafn \in {[nil |-> b, v |-> v] : b \in BOOLEAN, v \in ExprValues}
    /\ problems = <<>>
    /\ pc = "start"
    /\ check = "CheckLoopCondition"
    /\ rule = ""
    /\ FieldIdle
    /\ ConstIdle

NextLoopCond == CheckLoopCondition

SpecLoopCond == InitLoopCond /\ [][NextLoopCond]_vars

(***************************************************************************)
(* SpecChecks: the six checks that read the SSA form, each on the inputs   *)
(* of its own specification.                                               *)
(***************************************************************************)
InitChecks ==
    \/ InitRec
    \/ InitField
    \/ InitBool
    \/ InitUnread
    \/ InitAppend
    \/ InitLoopCond

NextChecks ==
    \/ NextRec
    \/ NextField
    \/ NextBool
    \/ NextUnread
    \/ NextAppend
    \/ NextLoopCond

SpecChecks == InitChecks /\ [][NextChecks]_vars

(***************************************************************************)
(* CheckSignalChannelSize (SA1016).  The file is the sequence of the       *)
(* statements the two passes look at: assignments and declarations of a    *)
(* channel variable, and calls of signal.Notify.  A statement's index is   *)
(* the position of its identifier.                                         *)
(***************************************************************************)
MaxSigStmts == 3
MaxSize == 2
MaxSignals == 2

Names == {"c", "d"}

\* kind: "define" (c := rhs), "assign" (c = rhs), "var" (var c = rhs), or
\* "notify" (signal.Notify(name, sigs signals)).  rhs: "make1" is
\* make(chan os.Signal), "makeConst" is make(chan os.Signal, n) with a
\* constant n, "makeExpr" has a size that is no constant, "other" is no
\* make call.  The name "sel" in a Notify call stands for a first argument
\* that is no identifier.
SigStmt(kind, name, rhs, n, sigs) ==
    [kind |-> kind, name |-> name, rhs |-> rhs, n |-> n, sigs |-> sigs]

\* constantInt of the second argument of a make call.
constantInt(stmt) ==
    IF stmt.rhs = "makeConst" THEN [n |-> stmt.n, ok |-> TRUE]
    ELSE [n |-> 0, ok |-> FALSE]

\* fn2: the positions of the left-hand sides of assignment statements
\* whose right-hand side is a make call, with the recorded buffer size:
\* 0 unless the call has a second argument, and no entry when that
\* argument is no integer constant.
TrackedPos(stmts) ==
    {i \in 1..Len(stmts) :
        /\ stmts[i].kind \in {"define", "assign"}
        /\ stmts[i].rhs \in {"make1", "makeConst", "makeExpr"}
        /\ (stmts[i].rhs # "make1" => constantInt(stmts[i]).ok)}

chanPosSize(stmts) ==
    [i \in TrackedPos(stmts) |->
        IF stmts[i].rhs = "make1" THEN 0 ELSE constantInt(stmts[i]).n]

\* TypesInfo.ObjectOf(chn).Pos(): the position of the identifier in the
\* statement that declares the variable; 0 for a variable declared outside
\* the statements (a parameter).
ObjectPos(stmts, name) ==
    IF \E i \in 1..Len(stmts) :
          stmts[i].kind \in {"define", "var"} /\ stmts[i].name = name
    THEN CHOOSE i \in 1..Len(stmts) :
          stmts[i].kind \in {"define", "var"} /\ stmts[i].name = name
    ELSE 0

SignalMsg(size, signals) ==
    [text |-> "channel buffer size %d is too small to catch %v signal(s)",
     size |-> size, signals |-> signals]

\* A call is flagged when the buffer has just room for its signals.
NotifyFlagged_AtMost(stmts, i) ==
    /\ stmts[i].kind = "notify"
    /\ stmts[i].name # "sel"
    /\ ObjectPos(stmts, stmts[i].name) \in DOMAIN chanPosSize(stmts)
    /\ chanPosSize(stmts)[ObjectPos(stmts, stmts[i].name)] <= stmts[i].sigs

\* fn3 on the call at position i.
NotifyFlagged(stmts, i) ==
    /\ stmts[i].kind = "notify"
    /\ stmts[i].name # "sel"
    /\ ObjectPos(stmts, stmts[i].name) \in DOMAIN chanPosSize(stmts)
    /\ chanPosSize(stmts)[ObjectPos(stmts, stmts[i].name)] < stmts[i].sigs

\* fn3 over the file from statement i on, in source order.
RECURSIVE NotifyDiags(_, _)
NotifyDiags(stmts, i) ==
    IF i > Len(stmts) THEN <<>>
    ELSE (IF NotifyFlagged(stmts, i)
          THEN <<Diag(i, SignalMsg(
                      chanPosSize(stmts)[ObjectPos(stmts, stmts[i].name)],
                      stmts[i].sigs))>>
          ELSE <<>>) \o NotifyDiags(stmts, i + 1)

CheckSignalChannelSize ==
    /\ check = "CheckSignalChannelSize"
    /\ pc = "start"
    /\ pc' = "done"
    /\ problems' = problems \o NotifyDiags(ast, 1)
    /\ UNCHANGED <<rule, check, ssafn, ast, fieldVars, constVars>>

(***************************************************************************)
(* Inputs of SpecSignal: every sequence of up to MaxSigStmts statements in *)
(* which a variable is declared at most once and before its other uses.    *)
(***************************************************************************)
SigStmts ==
    {SigStmt(k, nm, r, 0, 0) :
        k \in {"define", "assign", "var"}, nm \in Names,
        r \in {"make1", "makeExpr", "other"}}
    \cup {SigStmt(k, nm, "makeConst", n, 0) :
        k \in {"define", "assign", "var"}, nm \in Names, n \in 0..MaxSize}
    \cup {SigStmt("notify", nm, "other", 0, m) :
        nm \in Names \cup {"sel"}, m \in 0..MaxSignals}

DeclaredOnceFirst(stmts) ==
    \A i \in 1..Len(stmts) :
       stmts[i].kind \in {"define", "var"} =>
          \A j \in 1..(i - 1) : stmts[j].name # stmts[i].name

InitSignal ==
    /\ \E n \in 0..MaxSigStmts :
          \E stmts \in [1..n -> SigStmts] :
             /\ DeclaredOnceFirst(stmts)
             /\ ast = stmts
    /\ ssafn = [nil |-> TRUE, Blocks |-> <<>>]
    /\ problems = <<>>
    /\ pc = "start"
    /\ check = "CheckSignalChannelSize"
    /\ rule = ""
    /\ FieldIdle
    /\ ConstIdle

NextSignal == CheckSignalChannelSize

SpecSignal == InitSignal /\ [][NextSignal]_vars

(***************************************************************************)
(* The registry Funcs and a run of every registered check over one         *)
(* function that works with mutexes.  Its body is one block of statements: *)
(* x.Lock() and the like, deferred calls of the same methods, the          *)
(* statement `if true { return }`, and statements of no interest.          *)
(***************************************************************************)
MaxMutexStmts == 3

\* The nil lint.Func of a disabled identifier.
NilFunc == "nil"

\* The functions of signature func(*lint.File) that the package defines.
LintFuncs ==
    {"CheckSignalChannelSize", "CheckUntrappableSignal", "CheckRegexps",
     "CheckTemplate", "CheckTimeParse", "CheckEncodingBinary",
     "CheckTimeSleepConstant", "CheckWaitgroupAdd",
     "CheckInfiniteEmptyLoop", "CheckDeferInInfiniteLoop",
     "CheckDubiousDeferInChannelRangeLoop", "CheckTestMainExit",
     "CheckExec", "CheckLoopEmptyDefault", "CheckLhsRhsIdentical",
     "CheckScopedBreak", "CheckUnsafePrintf", "CheckURLs",
     "CheckEarlyDefer", "CheckDubiousSyncPoolPointers",
     "CheckEmptyCriticalSection", "CheckIneffectiveCopy",
     "CheckDiffSizeComparison", "CheckCanonicalHeaderKey",
     "CheckBenchmarkN", "CheckIneffecitiveFieldAssignments",
     "CheckUnreadVariableValues", "CheckPredeterminedBooleanExprs",
     "CheckNilMaps", "CheckUnsignedComparison", "CheckLoopCondition",
     "CheckArgOverwritten", "CheckIneffectiveLoop", "CheckRegexpFindAll",
     "CheckUTF8Cutset", "CheckNilContext", "CheckSeeker",
     "CheckIneffectiveAppend", "CheckConcurrentTesting",
     "CheckCyclicFinalizer", "CheckSliceOutOfBounds", "CheckDeferLock",
     "CheckNaNComparison", "CheckInfiniteRecursion",
     "CheckUnmarshalPointer"}

\* The identifiers of Funcs in source order.
RuleIDs ==
    <<"SA1000", "SA1001", "SA1002", "SA1003", "SA1004", "SA1005",
      "SA1006", "SA1007", "SA1008", "SA1009", "SA1010", "SA1011",
      "SA1012", "SA1013", "SA1014", "SA1015", "SA1016", "SA2000",
      "SA2001", "SA2002", "SA2003", "SA3000", "SA3001", "SA4000",
      "SA4001", "SA4002", "SA4003", "SA4004", "SA4005", "SA4006",
      "SA4007", "SA4008", "SA4009", "SA4010", "SA4011", "SA4012",
      "SA5000", "SA5001", "SA5002", "SA5003", "SA5004", "SA5005",
      "SA5006", "SA5007", "SA9000", "SA9001">>

\* SA4007 holds the check that its comment names.
Funcs_SA4007Enabled ==
    ("SA1000" :> "CheckRegexps") @@
    ("SA1001" :> "CheckTemplate") @@
    ("SA1002" :> "CheckTimeParse") @@
    ("SA1003" :> "CheckEncodingBinary") @@
    ("SA1004" :> "CheckTimeSleepConstant") @@
    ("SA1005" :> "CheckExec") @@
    ("SA1006" :> "CheckUnsafePrintf") @@
    ("SA1007" :> "CheckURLs") @@
    ("SA1008" :> "CheckCanonicalHeaderKey") @@
    ("SA1009" :> NilFunc) @@
    ("SA1010" :> "CheckRegexpFindAll") @@
    ("SA1011" :> "CheckUTF8Cutset") @@
    ("SA1012" :> "CheckNilContext") @@
    ("SA1013" :> "CheckSeeker") @@
    ("SA1014" :> "CheckUnmarshalPointer") @@
    ("SA1015" :> "CheckUntrappableSignal") @@
    ("SA1016" :> "CheckSignalChannelSize") @@
    ("SA2000" :> "CheckWaitgroupAdd") @@
    ("SA2001" :> "CheckEmptyCriticalSection") @@
    ("SA2002" :> "CheckConcurrentTesting") @@
    ("SA2003" :> "CheckDeferLock") @@
    ("SA3000" :> "CheckTestMainExit") @@
    ("SA3001" :> "CheckBenchmarkN") @@
    ("SA4000" :> "CheckLhsRhsIdentical") @@
    ("SA4001" :> "CheckIneffectiveCopy") @@
    ("SA4002" :> "CheckDiffSizeComparison") @@
    ("SA4003" :> "CheckUnsignedComparison") @@
    ("SA4004" :> "CheckIneffectiveLoop") @@
    ("SA4005" :> "CheckIneffecitiveFieldAssignments") @@
    ("SA4006" :> "CheckUnreadVariableValues") @@
    ("SA4007" :> "CheckPredeterminedBooleanExprs") @@
    ("SA4008" :> "CheckLoopCondition") @@
    ("SA4009" :> "CheckArgOverwritten") @@
    ("SA4010" :> "CheckIneffectiveAppend") @@
    ("SA4011" :> "CheckScopedBreak") @@
    ("SA4012" :> "CheckNaNComparison") @@
    ("SA5000" :> "CheckNilMaps") @@
    ("SA5001" :> "CheckEarlyDefer") @@
    ("SA5002" :> "CheckInfiniteEmptyLoop") @@
    ("SA5003" :> "CheckDeferInInfiniteLoop") @@
    ("SA5004" :> "CheckLoopEmptyDefault") @@
    ("SA5005" :> "CheckCyclicFinalizer") @@
    ("SA5006" :> "CheckSliceOutOfBounds") @@
    ("SA5007" :> "CheckInfiniteRecursion") @@
    ("SA9000" :> "CheckDubiousSyncPoolPointers") @@
    ("SA9001" :> "CheckDubiousDeferInChannelRangeLoop")

Funcs ==
    ("SA1000" :> "CheckRegexps") @@
    ("SA1001" :> "CheckTemplate") @@
    ("SA1002" :> "CheckTimeParse") @@
    ("SA1003" :> "CheckEncodingBinary") @@
    ("SA1004" :> "CheckTimeSleepConstant") @@
    ("SA1005" :> "CheckExec") @@
    ("SA1006" :> "CheckUnsafePrintf") @@
    ("SA1007" :> "CheckURLs") @@
    ("SA1008" :> "CheckCanonicalHeaderKey") @@
    ("SA1009" :> NilFunc) @@
    ("SA1010" :> "CheckRegexpFindAll") @@
    ("SA1011" :> "CheckUTF8Cutset") @@
    ("SA1012" :> "CheckNilContext") @@
    ("SA1013" :> "CheckSeeker") @@
    ("SA1014" :> "CheckUnmarshalPointer") @@
    ("SA1015" :> "CheckUntrappableSignal") @@
    ("SA1016" :> "CheckSignalChannelSize") @@
    ("SA2000" :> "CheckWaitgroupAdd") @@
    ("SA2001" :> "CheckEmptyCriticalSection") @@
    ("SA2002" :> "CheckConcurrentTesting") @@
    ("SA2003" :> "CheckDeferLock") @@
    ("SA3000" :> "CheckTestMainExit") @@
    ("SA3001" :> "CheckBenchmarkN") @@
    ("SA4000" :> "CheckLhsRhsIdentical") @@
    ("SA4001" :> "CheckIneffectiveCopy") @@
    ("SA4002" :> "CheckDiffSizeComparison") @@
    ("SA4003" :> "CheckUnsignedComparison") @@
    ("SA4004" :> "CheckIneffectiveLoop") @@
    ("SA4005" :> "CheckIneffecitiveFieldAssignments") @@
    ("SA4006" :> "CheckUnreadVariableValues") @@
    ("SA4007" :> NilFunc) @@
    ("SA4008" :> "CheckLoopCondition") @@
    ("SA4009" :> "CheckArgOverwritten") @@
    ("SA4010" :> "CheckIneffectiveAppend") @@
    ("SA4011" :> "CheckScopedBreak") @@
    ("SA4012" :> "CheckNaNComparison") @@
    ("SA5000" :> "CheckNilMaps") @@
    ("SA5001" :> "CheckEarlyDefer") @@
    ("SA5002" :> "CheckInfiniteEmptyLoop") @@
    ("SA5003" :> "CheckDeferInInfiniteLoop") @@
    ("SA5004" :> "CheckLoopEmptyDefault") @@
    ("SA5005" :> "CheckCyclicFinalizer") @@
    ("SA5006" :> "CheckSliceOutOfBounds") @@
    ("SA5007" :> "CheckInfiniteRecursion") @@
    ("SA9000" :> "CheckDubiousSyncPoolPointers") @@
    ("SA9001" :> "CheckDubiousDeferInChannelRangeLoop")

Mutexes == {"x", "y"}

MutexMethods == {"Lock", "Unlock", "RLock", "RUnlock"}

\* kind: "call" (x.Lock()), "defer" (defer x.Lock()), "ifreturn"
\* (if true { return }) or "other"; x is the rendered receiver.
MutexStmt(kind, x, method) == [kind |-> kind, x |-> x, method |-> method]

\* mutexParams: the receiver and method of a statement that is a call of
\* a method without parameters and results.
mutexParams(s) == [x |-> s.x, funcName |-> s.method, ok |-> s.kind = "call"]

\* CheckEmptyCriticalSection on the adjacent statements i and i + 1.
EmptySection(block, i) ==
    LET p1 == mutexParams(block[i])
        p2 == mutexParams(block[i + 1])
    IN  /\ p1.ok /\ p2.ok /\ p1.x = p2.x
        /\ \/ p1.funcName = "Lock" /\ p2.funcName = "Unlock"
           \/ p1.funcName = "RLock" /\ p2.funcName = "RUnlock"

\* A message whose format has no arguments.
PlainMsg(text) == [text |-> text, name |-> "", unlock |-> ""]

RECURSIVE EmptySectionDiags(_, _)
EmptySectionDiags(block, i) ==
    IF i >= Len(block) THEN <<>>
    ELSE (IF EmptySection(block, i)
          THEN <<Diag(i + 1, PlainMsg("empty critical section"))>> ELSE <<>>)
         \o EmptySectionDiags(block, i + 1)

\* CheckDeferLock on the adjacent statements i and i + 1.
DeferredLock(block, i) ==
    /\ block[i].kind = "call"
    /\ block[i].method \in {"Lock", "RLock"}
    /\ block[i + 1].kind = "defer"
    /\ block[i + 1].method = block[i].method
    /\ block[i + 1].x = block[i].x

DeferLockMsg(method) ==
    [text |-> "deferring %s right after having locked already; did you mean to defer %s?",
     name |-> method,
     unlock |-> IF method = "RLock" THEN "RUnlock" ELSE "Unlock"]

RECURSIVE DeferLockDiags(_, _)
DeferLockDiags(block, i) ==
    IF i >= Len(block) THEN <<>>
    ELSE (IF DeferredLock(block, i)
          THEN <<Diag(i + 1, DeferLockMsg(block[i].method))>> ELSE <<>>)
         \o DeferLockDiags(block, i + 1)

\* The position of an identifier in RuleIDs; 0 for "".
RuleIndex(id) ==
    IF id = "" THEN 0 ELSE CHOOSE k \in 1..Len(RuleIDs) : RuleIDs[k] = id

\* The runner takes the next identifier of the registry: a nil entry is
\* skipped silently, any other is started on the file.
RunRule ==
    /\ pc \in {"idle", "done"}
    /\ RuleIndex(rule) < Len(RuleIDs)
    /\ LET id == RuleIDs[RuleIndex(rule) + 1]
       IN  /\ rule' = id
           /\ check' = Funcs[id]
           /\ pc' = IF Funcs[id] = NilFunc THEN "done" ELSE "start"
    /\ UNCHANGED <<ssafn, ast, problems, fieldVars, constVars>>

CheckEmptyCriticalSection ==
    /\ check = "CheckEmptyCriticalSection"
    /\ pc = "start"
    /\ pc' = "done"
    /\ problems' = problems \o EmptySectionDiags(ast, 1)
    /\ UNCHANGED <<rule, check, ssafn, ast, fieldVars, constVars>>

CheckDeferLock ==
    /\ check = "CheckDeferLock"
    /\ pc = "start"
    /\ pc' = "done"
    /\ problems' = problems \o DeferLockDiags(ast, 1)
    /\ UNCHANGED <<rule, check, ssafn, ast, fieldVars, constVars>>

\* Any other check of the registry: none of the statements is a site of
\* it, so its walk ends without a call of Errorf.
CheckWithoutSite ==
    /\ check \in LintFuncs \ {"CheckEmptyCriticalSection", "CheckDeferLock"}
    /\ pc = "start"
    /\ pc' = "done"
    /\ UNCHANGED <<rule, check, ssafn, ast, problems, fieldVars, constVars>>

(***************************************************************************)
(* Inputs of SpecRegistry: every block of up to MaxMutexStmts statements.  *)
(***************************************************************************)
MutexStmts ==
    {MutexStmt(k, x, m) : k \in {"call", "defer"}, x \in Mutexes,
                          m \in MutexMethods}
    \cup {MutexStmt("ifreturn", "", ""), MutexStmt("other", "", "")}

InitRegistry ==
    /\ \E n \in 0..MaxMutexStmts : ast \in [1..n -> MutexStmts]
    /\ ssafn = [nil |-> TRUE, Blocks |-> <<>>]
    /\ problems = <<>>
    /\ pc = "idle"
    /\ check = ""
    /\ rule = ""
    /\ FieldIdle
    /\ ConstIdle

NextRegistry ==
    \/ RunRule
    \/ CheckEmptyCriticalSection
    \/ CheckDeferLock
    \/ CheckWithoutSite

SpecRegistry == InitRegistry /\ [][NextRegistry]_vars

(***************************************************************************)
(* CheckIneffectiveCopy (SA4001).  The file is a sequence of expressions,  *)
(* each a chain of prefix operators over an identifier, outermost first:   *)
(* "&" and "-" are *ast.UnaryExpr (token.AND and another operator), "*" is *)
(* *ast.StarExpr, "(" is *ast.ParenExpr.  Node i of expression e is the    *)
(* operator at index i; its operand X is node i + 1, or the identifier.    *)
(***************************************************************************)
MaxExprs == 2
MaxOps == 3

PrefixOps == {"&", "*", "(", "-"}

AddrOfStarMsg == "&*x will be simplified to x. It will not copy x."

StarOfAddrMsg == "*&x will be simplified to x. It will not copy x."

\* The callback on node i of expression e: the diagnostics it emits.
CopyNodeDiags(ops, e, i) ==
    (IF ops[i] = "&" /\ i < Len(ops) /\ ops[i + 1] = "*"
     THEN <<Diag(<<e, i>>, AddrOfStarMsg)>> ELSE <<>>)
    \o (IF ops[i] = "*" /\ i < Len(ops) /\ ops[i + 1] = "&"
        THEN <<Diag(<<e, i>>, StarOfAddrMsg)>> ELSE <<>>)

\* f.Walk over expression e from node i inwards.
RECURSIVE CopyExprDiags(_, _, _)
CopyExprDiags(ops, e, i) ==
    IF i > Len(ops) THEN <<>>
    ELSE CopyNodeDiags(ops, e, i) \o CopyExprDiags(ops, e, i + 1)

\* f.Walk over the expressions of the file from expression e on.
RECURSIVE CopyFileDiags(_, _)
CopyFileDiags(exprs, e) ==
    IF e > Len(exprs) THEN <<>>
    ELSE CopyExprDiags(exprs[e], e, 1) \o CopyFileDiags(exprs, e + 1)

CheckIneffectiveCopy ==
    /\ check = "CheckIneffectiveCopy"
    /\ pc = "start"
    /\ pc' = "done"
    /\ problems' = problems \o CopyFileDiags(ast, 1)
    /\ UNCHANGED <<rule, check, ssafn, ast, fieldVars, constVars>>

(***************************************************************************)
(* Inputs of SpecCopy: up to MaxExprs expressions of up to MaxOps          *)
(* operators.                                                              *)
(***************************************************************************)
InitCopy ==
    /\ \E n \in 0..MaxExprs :
          ast \in [1..n -> UNION {[1..k -> PrefixOps] : k \in 0..MaxOps}]
    /\ ssafn = [nil |-> TRUE, Blocks |-> <<>>]
    /\ problems = <<>>
    /\ pc = "start"
    /\ check = "CheckIneffectiveCopy"
    /\ rule = ""
    /\ FieldIdle
    /\ ConstIdle

NextCopy == CheckIneffectiveCopy

SpecCopy == InitCopy /\ [][NextCopy]_vars

(***************************************************************************)
(* consts, call by call.  callStack holds the active calls; frame i of a   *)
(* phi is the operand its loop is at.  pc is "call" when the innermost     *)
(* call has just been entered, "loop" at the head of a phi's loop,         *)
(* "returned" and "failed" when the call above the innermost frame has     *)
(* come back with ok true or false, "done" when the query is over.         *)
(***************************************************************************)
Frame(val, i) == [val |-> val, i |-> i]

TopFrame == callStack[Len(callStack)]

Popped == SubSeq(callStack, 1, Len(callStack) - 1)

ReplaceTop(f) == [callStack EXCEPT ![Len(callStack)] = f]

\* The map stays as it was.
MarkVisited_Forgets(seen, val) == seen

\* visitedPhis[val.Name()] = true
MarkVisited(seen, val) == seen \cup {val}

\* The switch on the type of val at the entry of a call.
ConstsEnter ==
    /\ check = "consts"
    /\ pc = "call"
    /\ LET g == ssafn.Values
           val == TopFrame.val
       IN  CASE g[val].kind = "Phi" /\ val \in phisSeen ->
                  /\ callStack' = Popped
                  /\ constsOut' = uniq(g, constsOut)
                  /\ pc' = "returned"
                  /\ UNCHANGED <<phisSeen, expansions>>
             [] g[val].kind = "Phi" /\ val \notin phisSeen ->
                  /\ phisSeen' = MarkVisited(phisSeen, val)
                  /\ expansions' = [expansions EXCEPT ![val] = @ + 1]
                  /\ callStack' = ReplaceTop(Frame(val, 1))
                  /\ pc' = "loop"
                  /\ UNCHANGED constsOut
             [] g[val].kind = "Const" ->
                  /\ callStack' = Popped
                  /\ constsOut' = uniq(g, Append(constsOut, val))
                  /\ pc' = "returned"
                  /\ UNCHANGED <<phisSeen, expansions>>
             [] g[val].kind = "Convert" ->
                  /\ callStack' = Append(ReplaceTop(Frame(val, 1)),
                                         Frame(g[val].Operands[1], 0))
                  /\ pc' = "call"
                  /\ UNCHANGED <<constsOut, phisSeen, expansions>>
             [] OTHER ->
                  /\ callStack' = Popped
                  /\ constsOut' = <<>>
                  /\ pc' = "failed"
                  /\ UNCHANGED <<phisSeen, expansions>>
    /\ UNCHANGED <<rule, check, ssafn, ast, problems, fieldVars, walkVars, xs, ys>>

\* for _, phival := range vals: the next operand is queried, or the loop
\* is over and the call returns the merged slice.
ConstsLoop ==
    /\ check = "consts"
    /\ pc = "loop"
    /\ LET g == ssafn.Values
           f == TopFrame
       IN  IF f.i > Len(g[f.val].Operands)
           THEN /\ callStack' = Popped
                /\ constsOut' = uniq(g, constsOut)
                /\ pc' = "returned"
           ELSE /\ callStack' = Append(callStack, Frame(g[f.val].Operands[f.i], 0))
                /\ pc' = "call"
                /\ UNCHANGED constsOut
    /\ UNCHANGED <<rule, check, ssafn, ast, problems, fieldVars, walkVars, xs, ys,
                   phisSeen, expansions>>

\* A callee has returned with ok true: a phi goes on with its next
\* operand, a conversion returns the merged slice.
ConstsReturned ==
    /\ check = "consts"
    /\ pc = "returned"
    /\ callStack # <<>>
    /\ LET g == ssafn.Values
           f == TopFrame
       IN  IF g[f.val].kind = "Phi"
           THEN /\ callStack' = ReplaceTop(Frame(f.val, f.i + 1))
                /\ pc' = "loop"
                /\ UNCHANGED constsOut
           ELSE /\ callStack' = Popped
                /\ constsOut' = uniq(g, constsOut)
                /\ pc' = "returned"
    /\ UNCHANGED <<rule, check, ssafn, ast, problems, fieldVars, walkVars, xs, ys,
                   phisSeen, expansions>>

\* A callee has returned with ok false: the caller returns nil, false.
ConstsFailed ==
    /\ check = "consts"
    /\ pc = "failed"
    /\ callStack # <<>>
    /\ callStack' = Popped
    /\ UNCHANGED <<rule, check, ssafn, ast, problems, pc, fieldVars, walkVars, xs, ys,
                   constsOut, phisSeen, expansions>>

\* The outermost call has returned to the caller of the query.
ConstsDone ==
    /\ check = "consts"
    /\ pc \in {"returned", "failed"}
    /\ callStack = <<>>
    /\ xs' = [out |-> constsOut, ok |-> pc = "returned"]
    /\ pc' = "done"
    /\ UNCHANGED <<rule, check, ssafn, ast, problems, fieldVars, walkVars, ys,
                   callStack, constsOut, phisSeen, expansions>>

(***************************************************************************)
(* Inputs of SpecConsts: the value graphs of SpecBool, queried from a      *)
(* value from which every inner value is reached.                          *)
(***************************************************************************)
InitConsts ==
    /\ \E nl \in 1..MaxLeaves, ni \in 0..MaxInner, nilTyped \in BOOLEAN :
         \E leaves \in [1..nl -> LeafValues(nilTyped)],
            inner \in [1..ni -> InnerValues(nl + ni)] :
            /\ WellFormedValues(leaves \o inner)
            /\ ssafn = MkValueFunction(FALSE, leaves \o inner)
            /\ \E q \in 1..(nl + ni) :
                 /\ (nl + 1)..(nl + ni) \subseteq ValuesFrom(leaves \o inner, {q})
                 /\ ast = [val |-> q]
                 /\ callStack = <<Frame(q, 0)>>
            /\ expansions = [v \in 1..(nl + ni) |-> 0]
    /\ constsOut = <<>>
    /\ phisSeen = {}
    /\ xs = <<>>
    /\ ys = <<>>
    /\ problems = <<>>
    /\ pc = "call"
    /\ check = "consts"
    /\ rule = ""
    /\ FieldIdle
    /\ WalkIdle

NextConsts ==
    \/ ConstsEnter
    \/ ConstsLoop
    \/ ConstsReturned
    \/ ConstsFailed
    \/ ConstsDone

SpecConsts == InitConsts /\ [][NextConsts]_vars

SpecConstsFair == SpecConsts /\ WF_vars(NextConsts)

(***************************************************************************)
(* hasRead, call by call, for one iteration of the loop over the writes    *)
(* map: the writes of block ast.block, yielded in the order ast.order,     *)
(* under one `seen` map.  pc is "write" at the head of the loop over the   *)
(* writes, "enter" when a call of hasRead has just been entered, "succs"   *)
(* at the head of its loop over block.Succs, "true" and "false" when the   *)
(* call above the innermost frame has returned that value, "done" when     *)
(* the writes are exhausted.                                               *)
(***************************************************************************)
ReadFrame(block, i) == [block |-> block, i |-> i]

TopRead == readStack[Len(readStack)]

\* for write := range writes: the next write is checked from its own
\* block, or the iteration is over.
HasReadCall ==
    /\ check = "hasRead"
    /\ pc = "write"
    /\ IF writeOrder = <<>>
       THEN pc' = "done" /\ UNCHANGED readStack
       ELSE pc' = "enter" /\ readStack' = <<ReadFrame(ast.block, 0)>>
    /\ UNCHANGED <<rule, check, ssafn, ast, problems, constVars, recvPtrs, reads,
                   writes, cursor, todoBlocks, firstRun, seenBlocks, entries,
                   writeOrder>>

\* seen[block] = true and the loop over reads[block].
HasReadEnter ==
    /\ check = "hasRead"
    /\ pc = "enter"
    /\ seenBlocks' = seenBlocks \cup {TopRead.block}
    /\ entries' = [entries EXCEPT ![TopRead.block] = @ + 1]
    /\ IF \E read \in reads[TopRead.block] : ReadMatches(read, Head(writeOrder))
       THEN /\ readStack' = SubSeq(readStack, 1, Len(readStack) - 1)
            /\ pc' = "true"
       ELSE /\ readStack' = [readStack EXCEPT ![Len(readStack)] =
                                ReadFrame(TopRead.block, 1)]
            /\ pc' = "succs"
    /\ UNCHANGED <<rule, check, ssafn, ast, problems, constVars, recvPtrs, reads,
                   writes, cursor, todoBlocks, firstRun, writeOrder>>

\* for _, succ := range block.Succs: a successor not yet seen is entered,
\* one already seen is passed over, and after the last the call returns
\* false.
HasReadSuccs ==
    /\ check = "hasRead"
    /\ pc = "succs"
    /\ LET succs == ssafn.Blocks[TopRead.block].Succs
       IN  IF TopRead.i > Len(succs)
           THEN /\ readStack' = SubSeq(readStack, 1, Len(readStack) - 1)
                /\ pc' = "false"
           ELSE IF succs[TopRead.i] \in seenBlocks
           THEN /\ readStack' = [readStack EXCEPT ![Len(readStack)] =
                                    ReadFrame(TopRead.block, TopRead.i + 1)]
                /\ pc' = "succs"
           ELSE /\ readStack' = Append(readStack, ReadFrame(succs[TopRead.i], 0))
                /\ pc' = "enter"
    /\ UNCHANGED <<rule, check, ssafn, ast, problems, constVars, recvPtrs, reads,
                   writes, cursor, todoBlocks, firstRun, seenBlocks, entries,
                   writeOrder>>

\* A call has returned to its caller: true is passed on at once, after
\* false the caller goes on with its next successor.
HasReadReturn ==
    /\ check = "hasRead"
    /\ pc \in {"true", "false"}
    /\ readStack # <<>>
    /\ IF pc = "true"
       THEN /\ readStack' = SubSeq(readStack, 1, Len(readStack) - 1)
            /\ pc' = "true"
       ELSE /\ readStack' = [readStack EXCEPT ![Len(readStack)] =
                                ReadFrame(TopRead.block, TopRead.i + 1)]
            /\ pc' = "succs"
    /\ UNCHANGED <<rule, check, ssafn, ast, problems, constVars, recvPtrs, reads,
                   writes, cursor, todoBlocks, firstRun, seenBlocks, entries,
                   writeOrder>>

\* if !hasRead(block, fa) { f.Errorf(...) }
HasReadResult ==
    /\ check = "hasRead"
    /\ pc \in {"true", "false"}
    /\ readStack = <<>>
    /\ problems' = IF pc = "true" THEN problems
                   ELSE Append(problems, Diag(Head(writeOrder).Pos,
                                              FieldMsg(Head(writeOrder).Field)))
    /\ writeOrder' = Tail(writeOrder)
    /\ pc' = "write"
    /\ UNCHANGED <<rule, check, ssafn, ast, constVars, recvPtrs, reads,
                   writes, cursor, todoBlocks, firstRun, readStack, seenBlocks,
                   entries>>

(***************************************************************************)
(* Inputs of SpecHasRead: a control-flow graph of up to NumBlocks blocks   *)
(* with any successor lists, the reads map filled with reads of the        *)
(* statements  use t.Name (1); t.Name = c (2); use t.Name (3);             *)
(* t.Age = c (4); load of *t (5),  and one block holding one or both of    *)
(* the writes, in either order.                                            *)
(***************************************************************************)
ReadKeys ==
    {FieldAddr("t0", 0, 1), FieldAddr("t0", 0, 3),
     UnOpValue(UnOp("MUL", Base("t0"), 5))}

WriteKeys == {FieldAddr("t0", 0, 2), FieldAddr("t0", 1, 4)}

InitHasRead ==
    /\ \E n \in 1..NumBlocks :
         \E succ \in [1..n -> SuccLists(n) \cup {<<b, b>> : b \in 1..n}] :
            /\ ssafn = MkMethodNoLocals(n, succ)
            /\ reads \in [1..n -> SUBSET ReadKeys]
            /\ \E b \in 1..n, ws \in (SUBSET WriteKeys) \ {{}} :
                 \E order \in Orders(ws) :
                    /\ writes = [x \in 1..n |-> IF x = b THEN ws ELSE {}]
                    /\ ast = [block |-> b, order |-> order]
                    /\ writeOrder = order
            /\ entries = [b \in 1..n |-> 0]
    /\ readStack = <<>>
    /\ seenBlocks = {}
    /\ recvPtrs = {}
    /\ cursor = <<>>
    /\ todoBlocks = {}
    /\ firstRun = <<>>
    /\ problems = <<>>
    /\ pc = "write"
    /\ check = "hasRead"
    /\ rule = ""
    /\ ConstIdle

NextHasRead ==
    \/ HasReadCall
    \/ HasReadEnter
    \/ HasReadSuccs
    \/ HasReadReturn
    \/ HasReadResult

SpecHasRead == InitHasRead /\ [][NextHasRead]_vars

SpecHasReadFair == SpecHasRead /\ WF_vars(NextHasRead)

(***************************************************************************)
(* Claims about CheckInfiniteRecursion (SpecRec).                          *)
(***************************************************************************)
Flagged(pos, msg) == \E k \in 1..Len(problems) : problems[k] = Diag(pos, msg)

RecMsg == "infinite recursive call"

\* The direct self-calls of the function: <<block, index>>.
SelfCalls ==
    IF ssafn.nil THEN {}
    ELSE { <<b, i>> \in BlockIds(ssafn) \X (1..2) :
              /\ i <= Len(ssafn.Blocks[b].Instrs)
              /\ IsDirectSelfCall(ssafn.Blocks[b].Instrs[i]) }

\* C1: a non-interface call of the enclosing function is flagged "infinite
\* recursive call" if and only if no block that is not dominated by the
\* call's block (dominance reflexive) ends in a Return.
C1_FlaggedIffNoUndominatedReturn ==
    pc = "done" =>
        \A c \in SelfCalls :
            Flagged(c, RecMsg) <=>
                ~\E b \in BlockIds(ssafn) :
                    /\ c[1] \notin DomSets(ssafn)[b]
                    /\ EndsInReturn(ssafn, b)

\* C1 witness: a flagged self-call in a function that does have a Return
\* block, in another block than the call.
C1_Witness ==
    /\ pc = "done"
    /\ \E c \in SelfCalls :
          /\ Flagged(c, RecMsg)
          /\ \E b \in BlockIds(ssafn) \ {c[1]} : EndsInReturn(ssafn, b)

\* Some Return-ending block lies on a path forward from block b (the rest
\* of b itself included).
ReturnAhead(b) == \E r \in Reachable(ssafn, b) : EndsInReturn(ssafn, r)

\* Some path from the entry block reaches a Return-ending block without
\* passing through block b.
ReturnAvoiding(b) ==
    \E r \in ReachAvoiding(ssafn, {1} \ {b}, {b}) : EndsInReturn(ssafn, r)

\* C2 as stated: the rule fires on a direct self-call when no path forward
\* from its block reaches a Return, and does not fire when some path forward
\* from its block reaches a Return.
C2_Original ==
    pc = "done" =>
        \A c \in SelfCalls :
            /\ ~ReturnAhead(c[1]) => Flagged(c, RecMsg)
            /\ ReturnAhead(c[1]) => ~Flagged(c, RecMsg)

\* C2 amended: the rule fires on a direct self-call when no path from the
\* entry block reaches a Return without passing through the call's block,
\* and does not fire when some path from the entry block reaches a Return
\* without passing through the call's block.
C2_FiresIffNoReturnAvoidsCall ==
    pc = "done" =>
        \A c \in SelfCalls :
            /\ ~ReturnAvoiding(c[1]) => Flagged(c, RecMsg)
            /\ ReturnAvoiding(c[1]) => ~Flagged(c, RecMsg)

\* C2 witness: a flagged self-call outside the entry block from which a
\* Return is reached.
C2_Witness ==
    /\ pc = "done"
    /\ \E c \in SelfCalls :
          /\ c[1] # 1
          /\ Flagged(c, RecMsg)
          /\ ReturnAhead(c[1])

\* The blocks that a path from the entry block reaches without passing
\* through block b.
ReachedWithout(b) == ReachAvoiding(ssafn, {1} \ {b}, {b})

\* C24: when a self-call is flagged, every path from the entry block to a
\* block ending in Return passes through the block of the call, and in
\* that block the call stands before the Return: nothing returns without
\* having made the call.
C24_FlaggedCallPrecedesEveryReturn ==
    pc = "done" =>
        \A c \in SelfCalls :
            Flagged(c, RecMsg) =>
                \A r \in BlockIds(ssafn) :
                    EndsInReturn(ssafn, r) =>
                        /\ r \notin ReachedWithout(c[1])
                        /\ r = c[1] => c[2] < Len(ssafn.Blocks[r].Instrs)

\* C24 witness: a flagged self-call outside the entry block, in a function
\* whose entry block branches and which has a Return in a later block.
C24_Witness ==
    /\ pc = "done"
    /\ \E c \in SelfCalls :
          /\ Flagged(c, RecMsg)
          /\ c[1] # 1
          /\ Len(ssafn.Blocks[1].Succs) = 2
          /\ \E r \in BlockIds(ssafn) \ {1, c[1]} : EndsInReturn(ssafn, r)

(***************************************************************************)
(* Claims about CheckIneffectiveLoop (SpecLoop).                           *)
(***************************************************************************)
Loops == {n \in StmtIds(ast) : ast[n].kind \in LoopKinds}

Body(L) == {m \in StmtIds(ast) : ast[m].parent = L}

Within(L) == {m \in StmtIds(ast) : L \in Ancestors(ast, m)}

\* The diagnostics emitted for loop L: those positioned on a direct
\* statement of its body.
DiagsFor(L) == {k \in 1..Len(problems) : problems[k].pos \in Body(L)}

\* Direct statements that unconditionally leave loop L: a return, an
\* unlabeled break, a break naming L.
DirectExits(L) ==
    {m \in Body(L) :
        \/ ast[m].kind = "Return"
        \/ ast[m].kind = "Break" /\ ast[m].label \in {0, L}}

LastOf(S) == CHOOSE m \in S : \A x \in S : x <= m

\* Direct branching constructs of L, and those among them that are not
\* the statement of a label.
DirectBranching(L) == {m \in Body(L) : ast[m].kind \in ContainerKinds}

PlainDirectBranching(L) ==
    {m \in DirectBranching(L) : \A x \in StmtIds(ast) : ast[x].label # m}

HasGoto(L) == \E m \in Within(L) : ast[m].kind = "Goto"

HasUnlabeledContinue(L) ==
    \E m \in Within(L) : ast[m].kind = "Continue" /\ ast[m].label = 0

HasContinueOf(L) ==
    \E m \in Within(L) : ast[m].kind = "Continue" /\ ast[m].label = L

\* The traversal reaches L: every loop around L either ranges over a map,
\* has fewer than two direct statements, or passed the scan of its direct
\* statements (an exit, a branching construct, no continue of that loop).
PassedDirectScan(E) ==
    /\ DirectExits(E) # {}
    /\ PlainDirectBranching(E) # {}
    /\ ~\E m \in Body(E) : ast[m].kind = "Continue" /\ ast[m].label \in {0, E}

Examined(L) ==
    \A E \in Ancestors(ast, L) :
        \/ ast[E].kind # "For"
        \/ Cardinality(Body(E)) < 2
        \/ PassedDirectScan(E)

\* C3 as stated: every for/range loop with a direct unconditional exit and
\* a direct branching construct, in which no unlabeled continue and no goto
\* occurs, gets exactly one diagnostic, positioned on the exit statement.
C3_Original ==
    pc = "done" =>
        \A L \in Loops :
            (/\ DirectExits(L) # {}
             /\ DirectBranching(L) # {}
             /\ ~HasUnlabeledContinue(L)
             /\ ~HasGoto(L))
            => /\ Cardinality(DiagsFor(L)) = 1
               /\ \A k \in DiagsFor(L) : problems[k].pos \in DirectExits(L)

\* C3 amended: every for loop or non-map range loop that the traversal
\* reaches, with a direct unconditional exit and a direct unlabeled
\* branching construct, in which no goto, no unlabeled continue and no
\* continue naming the loop occurs, gets exactly one diagnostic, positioned
\* on the last direct exit statement.
C3_ExaminedLoopFlaggedOnce ==
    pc = "done" =>
        \A L \in Loops :
            (/\ ast[L].kind = "For"
             /\ Examined(L)
             /\ DirectExits(L) # {}
             /\ PlainDirectBranching(L) # {}
             /\ ~HasUnlabeledContinue(L)
             /\ ~HasContinueOf(L)
             /\ ~HasGoto(L))
            => /\ Cardinality(DiagsFor(L)) = 1
               /\ \A k \in DiagsFor(L) :
                    problems[k] = Diag(LastOf(DirectExits(L)), LoopMsg)

\* C3 witness: a nested loop, reached through a loop that passed the scan
\* of its own direct statements, is flagged.
C3_Witness ==
    /\ pc = "done"
    /\ \E L \in Loops :
          /\ \E E \in Ancestors(ast, L) :
                ast[E].kind = "For" /\ Cardinality(Body(E)) >= 2
          /\ Cardinality(DiagsFor(L)) = 1

\* C4: a loop is flagged only if its body has two or more statements, a
\* direct return or break leaving this loop, a direct branching construct,
\* and no goto, unlabeled continue or continue naming this loop anywhere in
\* the body; a body of an if holding a continue naming the loop followed by
\* a return is never flagged.
C4_FlaggedOnlyIf ==
    pc = "done" =>
        /\ \A k \in 1..Len(problems) :
             \E L \in Loops :
                /\ problems[k].pos \in DirectExits(L)
                /\ Cardinality(Body(L)) >= 2
                /\ DirectBranching(L) # {}
                /\ ~HasGoto(L)
                /\ ~HasUnlabeledContinue(L)
                /\ ~HasContinueOf(L)
        /\ \A L \in Loops :
             \A c \in StmtIds(ast) :
                (/\ ast[c].kind = "Continue" /\ ast[c].label = L
                 /\ ast[c].parent # 0 /\ ast[ast[c].parent].kind = "If"
                 /\ ast[ast[c].parent].parent = L
                 /\ Cardinality(Body(L)) = 2
                 /\ \E r \in Body(L) : r > c /\ ast[r].kind = "Return")
                => DiagsFor(L) = {}

\* C4 witness: a flagged loop of exactly two direct statements whose exit is
\* a break naming the loop itself.
C4_Witness ==
    /\ pc = "done"
    /\ \E L \in Loops :
          /\ Cardinality(Body(L)) = 2
          /\ \E k \in DiagsFor(L) :
                /\ ast[problems[k].pos].kind = "Break"
                /\ ast[problems[k].pos].label = L

\* Labeled break/continue statements in or under the body of L that name
\* another loop than L.
ForeignBranches(L) ==
    {m \in Within(L) :
        /\ ast[m].kind \in {"Break", "Continue"}
        /\ ast[m].label \notin {0, L}}

\* C5: labels are resolved to the statement they label.  A direct labeled
\* break is the exit of L only when its label names L; a labeled continue
\* cancels the diagnostic of L only when its label names L; break/continue
\* statements naming another loop neither create nor cancel a diagnostic.
C5_LabelsResolved ==
    pc = "done" =>
        \A L \in Loops :
            /\ \A k \in DiagsFor(L) :
                  LET m == problems[k].pos
                  IN  ast[m].kind = "Break" => ast[m].label \in {0, L}
            /\ DirectExits(L) = {} => DiagsFor(L) = {}
            /\ HasContinueOf(L) => DiagsFor(L) = {}
            /\ (/\ ForeignBranches(L) # {}
                /\ ast[L].kind = "For"
                /\ Examined(L)
                /\ DirectExits(L) # {}
                /\ PlainDirectBranching(L) # {}
                /\ ~HasUnlabeledContinue(L)
                /\ ~HasContinueOf(L)
                /\ ~HasGoto(L))
               => Cardinality(DiagsFor(L)) = 1

\* C5 witness: a flagged loop whose body holds a continue naming an outer
\* loop.
C5_Witness ==
    /\ pc = "done"
    /\ \E L \in Loops :
          /\ Cardinality(DiagsFor(L)) = 1
          /\ \E m \in ForeignBranches(L) : ast[m].kind = "Continue"

\* Loop E is rejected by the scan of its direct statements: a body of two
\* or more statements without a direct exit, without a direct branching
\* construct, or with a direct continue of E.
RejectedByScan(E) ==
    /\ ast[E].kind = "For"
    /\ Cardinality(Body(E)) >= 2
    /\ ~PassedDirectScan(E)

\* Loop L would be flagged if the traversal came to it.
WouldBeFlagged(L) ==
    /\ ast[L].kind = "For"
    /\ DirectExits(L) # {}
    /\ PlainDirectBranching(L) # {}
    /\ ~HasUnlabeledContinue(L)
    /\ ~HasContinueOf(L)
    /\ ~HasGoto(L)

\* C26: a loop nested, at any depth, in a loop that the scan of the direct
\* statements rejects is never flagged; a loop all of whose enclosing
\* loops have fewer than two body statements, range over a map or passed
\* the scan is examined: it is flagged when its own body calls for it.
C26_NoDescentIntoRejectedLoop ==
    pc = "done" =>
        \A L \in Loops :
            /\ (\E E \in Ancestors(ast, L) : RejectedByScan(E)) => DiagsFor(L) = {}
            /\ (WouldBeFlagged(L) /\ \A E \in Ancestors(ast, L) : ~RejectedByScan(E))
                  => Cardinality(DiagsFor(L)) = 1

\* C26 witness: a loop whose own body calls for a diagnostic lies in a
\* loop rejected by the scan and is not flagged.
C26_Witness ==
    /\ pc = "done"
    /\ \E L \in Loops :
          /\ WouldBeFlagged(L)
          /\ \E E \in Ancestors(ast, L) : RejectedByScan(E)
          /\ DiagsFor(L) = {}

(***************************************************************************)
(* Claims about CheckIneffecitiveFieldAssignments (SpecField).             *)
(***************************************************************************)
\* A run of the check that went past the guards has ended.
FieldRunDone == pc = "done" /\ ~FieldCheckSkips(ssafn)

\* The field stores the scan recorded, with their blocks.
TrackedWrites ==
    {bw \in BlockIds(ssafn) \X UNION {writes[b] : b \in DOMAIN writes} :
        bw[2] \in writes[bw[1]]}

FieldFlagged(w) == Flagged(w.Pos, FieldMsg(w.Field))

\* Some block reachable from b over successor edges, b included, holds a
\* recorded read that matches the write w.
LaterReadReachable(b, w) ==
    \E r \in Reachable(ssafn, b) : \E read \in reads[r] : ReadMatches(read, w)

\* C6 as stated: a recorded field store is flagged if and only if no block
\* reachable from its block (that block included) holds a matching load
\* with a later position; a method whose only field instruction is a write
\* of Name gets exactly one diagnostic, naming Name.
C6_FlaggedIffNoLaterRead ==
    FieldRunDone =>
        /\ \A bw \in TrackedWrites :
              FieldFlagged(bw[2]) <=> ~LaterReadReachable(bw[1], bw[2])
        /\ (/\ Cardinality(TrackedWrites) = 1
            /\ \A bw \in TrackedWrites : bw[2].Field = 0
            /\ \A b \in BlockIds(ssafn) : reads[b] = {})
           => /\ Len(problems) = 1
              /\ problems[1].msg = "ineffective assignment to field Name"

\* C7 as stated: the decision for a field store is the decision of the walk
\* run for that store alone, from an empty visited set.
C7_DecisionOfWalkAlone ==
    FieldRunDone =>
        \A bw \in TrackedWrites :
            FieldFlagged(bw[2])
                <=> ~hasRead(ssafn, reads, bw[1], bw[2], {}).found

\* C8 as stated: a second run of the check on the same function yields the
\* same set of diagnostics as the first.
C8_SecondRunSameDiagnostics ==
    (pc = "done" /\ firstRun # <<>>) => Range(problems) = Range(firstRun[1])

\* Some path of one or more instructions from the store w of block b ends
\* in a recorded load of the field w writes: later in b itself, or in a
\* block reached over one or more successor edges.
FieldLoadAhead(b, w) ==
    LET loads(r) == {read \in reads[r] :
                        read.kind = "FieldAddr" /\ read.Field = w.Field}
    IN  \/ \E read \in loads(b) : read.Pos > w.Pos
        \/ \E s \in Succs(ssafn, b) :
              \E r \in Reachable(ssafn, s) : loads(r) # {}

\* C9 as stated: no store is flagged while a control-flow path from it,
\* possibly around a back edge, reaches a load of the same field.
C9_NeverOverReports ==
    FieldRunDone =>
        \A bw \in TrackedWrites :
            FieldLoadAhead(bw[1], bw[2]) => ~FieldFlagged(bw[2])

\* The instruction the scan is about to visit.
ScannedInstr == ssafn.Blocks[Head(cursor)[1]].Instrs[Head(cursor)[2]]

\* C10: a method without locals, or whose first local is heap-allocated,
\* gets no diagnostic; otherwise the alias set starts as {receiver}, never
\* loses a member, and gains a member only as the address of a Store whose
\* stored value is already a member.
C10_AliasConservatism ==
    /\ [](pc = "done" /\ (Len(ssafn.Locals) = 0 \/ ssafn.Locals[1].Heap)
            => problems = <<>>)
    /\ [][pc = "start" /\ pc' = "scan" => recvPtrs' = {recv}]_vars
    /\ [][pc = "scan" =>
            /\ recvPtrs \subseteq recvPtrs'
            /\ \A v \in recvPtrs' \ recvPtrs :
                  /\ ScannedInstr.op = "Store"
                  /\ ScannedInstr.Addr = v
                  /\ ScannedInstr.Val \in recvPtrs]_vars
    /\ [][pc = "report" => recvPtrs' = recvPtrs]_vars

\* C10 witness: the scan has added the receiver's alloc and a pointer to it
\* to the alias set, and a store through them was flagged.
C10_Witness ==
    /\ pc = "done"
    /\ Cardinality(recvPtrs) >= 3
    /\ problems # <<>>

(***************************************************************************)
(* Claims about consts and CheckPredeterminedBooleanExprs (SpecBool).      *)
(***************************************************************************)
\* The two queries of a site that got as far as consts, with their roots.
Queries ==
    IF xs = <<>> THEN {}
    ELSE {[root |-> ast.X, res |-> xs], [root |-> ast.Y, res |-> ys]}

\* The constants among the values reached from val over the operand edges
\* of conversions and phis, and whether another kind of value is reached.
ReachedConsts(val) ==
    {v \in ValuesFrom(ssafn.Values, {val}) : ssafn.Values[v].kind = "Const"}

ReachesOther(val) ==
    \E v \in ValuesFrom(ssafn.Values, {val}) : ssafn.Values[v].kind = "Other"

ValueSet(S) == {ssafn.Values[v].Value : v \in S}

\* C11: a constant resolves to itself, a conversion to the constants of its
\* operand, a phi to the union of the constants of its edges (a phi met
\* again adds nothing); a value of another kind anywhere in the resolution
\* makes the query fail with no partial result.
C11_ConstsResolution ==
    \A q \in Queries :
        LET v == ssafn.Values[q.root]
        IN  /\ q.res.ok <=> ~ReachesOther(q.root)
            /\ ~q.res.ok => q.res.out = <<>>
            /\ q.res.ok =>
                  /\ Range(q.res.out) \subseteq ReachedConsts(q.root)
                  /\ ValueSet(Range(q.res.out)) = ValueSet(ReachedConsts(q.root))
            /\ v.kind = "Const" => q.res.out = <<q.root>>
            /\ (v.kind = "Convert" /\ q.res.ok) =>
                  ValueSet(Range(q.res.out)) = ValueSet(ReachedConsts(v.Operands[1]))
            /\ (v.kind = "Phi" /\ q.res.ok) =>
                  ValueSet(Range(q.res.out)) =
                     UNION {ValueSet(ReachedConsts(v.Operands[i])) :
                               i \in 1..Len(v.Operands)}

\* C11 witness: a query on a phi that lies on a cycle of phis resolved to
\* two constants.
C11_Witness ==
    /\ xs # <<>>
    /\ xs.ok
    /\ Len(xs.out) >= 2
    /\ ssafn.Values[ast.X].kind = "Phi"
    /\ \E e \in Range(ssafn.Values[ast.X].Operands) :
          ast.X \in ValuesFrom(ssafn.Values, {e})

\* C12 as stated: no two entries of the list a successful query returns
\* hold the same constant value.
C12_ResultDeduplicated ==
    \A q \in Queries :
        q.res.ok =>
            \A i, j \in 1..Len(q.res.out) :
                i # j => ssafn.Values[q.res.out[i]].Value
                            # ssafn.Values[q.res.out[j]].Value


\* The outcome of the comparison for one pair of constants.
Outcome(x, op, y) ==
    IF x.isNil /\ y.isNil THEN op \in {"EQL", "LEQ", "GEQ"}
    ELSE Compare(x.n, op, y.n)

\* The outcomes over all pairs of the constants the operands may hold.
Outcomes ==
    {Outcome(x, ast.Op, y) : x \in ValueSet(ReachedConsts(ast.X)),
                             y \in ValueSet(ReachedConsts(ast.Y))}

\* C13: a comparison is flagged if and only if both operands resolve to
\* nonempty constant sets and the comparison has the same outcome for every
\* pair; the one diagnostic names the outcome (for integer constants), the
\* operator and both constant lists; a comparison with an operand that does
\* not resolve is not flagged.
C13_FlaggedIffSameOutcome ==
    (pc = "done" /\ ~BoolCheckSkips(ssafn, ast)) =>
        /\ problems # <<>> <=>
              /\ ~ReachesOther(ast.X)
              /\ ~ReachesOther(ast.Y)
              /\ Cardinality(Outcomes) = 1
        /\ Len(problems) <= 1
        /\ \A k \in 1..Len(problems) :
              /\ problems[k].msg.op = ast.Op
              /\ ValueSet(ReachedConsts(ast.X)) = Range(problems[k].msg.xs)
              /\ ValueSet(ReachedConsts(ast.Y)) = Range(problems[k].msg.ys)
              /\ (\A x \in Range(problems[k].msg.xs) : ~x.isNil)
                    => Outcomes = {problems[k].msg.b}

\* C13 witness: an equality whose left operand is a phi was flagged as
\* always false.
C13_Witness ==
    /\ pc = "done"
    /\ ast.Op = "EQL"
    /\ ssafn.Values[ast.X].kind = "Phi"
    /\ \E k \in 1..Len(problems) : ~problems[k].msg.b

\* C25: the truth value a diagnostic names is the result of the
\* comparison for every pair of the resolved constants, also for nil
\* constants under == and !=: nil == nil is true, nil != nil is false.
C25_NamedValueIsTheOutcome ==
    (pc = "done" /\ check = "CheckPredeterminedBooleanExprs") =>
        \A k \in 1..Len(problems) :
            ((\A x \in Range(problems[k].msg.xs) : ~x.isNil)
                \/ ast.Op \in {"EQL", "NEQ"})
               => Outcomes = {problems[k].msg.b}

\* For constants that are not nil, and for nil under ==, the truth value
\* a diagnostic names is the result of the comparison for every pair.
NamedValueIsTheOutcomeButNilNeq ==
    (pc = "done" /\ check = "CheckPredeterminedBooleanExprs") =>
        \A k \in 1..Len(problems) :
            ((\A x \in Range(problems[k].msg.xs) : ~x.isNil)
                \/ ast.Op = "EQL")
               => Outcomes = {problems[k].msg.b}

(***************************************************************************)
(* Claims about CheckUnreadVariableValues (SpecUnread).                    *)
(***************************************************************************)
\* C14 as stated: in an assignment with as many destinations as
\* expressions, a pair whose destination is an identifier other than _ and
\* whose expression has an SSA value with a referrer list is flagged if and
\* only if the list holds nothing but DebugRefs; a pair whose destination
\* is _ or no identifier is never flagged.
C14_FlaggedIffOnlyDebugRefs ==
    (pc = "done" /\ ~ssafn.nil /\ Len(ast.Lhs) = Len(ast.Rhs)) =>
        \A i \in 1..Len(ast.Lhs) :
            LET flagged == \E k \in 1..Len(problems) : problems[k] = UnreadDiag(i)
            IN  /\ ast.Lhs[i] # "ident" => ~flagged
                /\ (/\ ast.Lhs[i] = "ident"
                    /\ ast.Rhs[i].hasValue
                    /\ ~ast.Rhs[i].refs.isNil)
                   => (flagged <=>
                         \A j \in 1..Len(ast.Rhs[i].refs.list) :
                            ast.Rhs[i].refs.list[j] = "DebugRef")

(***************************************************************************)
(* Claims about CheckIneffectiveAppend (SpecAppend).                       *)
(***************************************************************************)
\* The instructions reached from the referrers of the append call by
\* following the referrers of phis and of append calls.
RECURSIVE ConsumersFrom(_)
ConsumersFrom(S) ==
    LET next == S \cup UNION {Range(ssafn.Instrs[n].Referrers) :
                                n \in {m \in S : ssafn.Instrs[m].kind
                                                   \in {"Phi", "Append"}}}
    IN  IF next = S THEN S ELSE ConsumersFrom(next)

Consumers == ConsumersFrom(Range(ssafn.Instrs[1].Referrers))

\* C15: an assignment x = append(...) that passes the guards is flagged if
\* and only if no instruction reached over the referrers of the result, of
\* phis and of further append calls is anything but a debug reference, a
\* phi or an append call.
C15_FlaggedIffOnlyAppends ==
    (pc = "done" /\ ~AppendCheckSkips(ssafn, ast)) =>
        /\ problems # <<>> <=>
              \A n \in Consumers :
                 ssafn.Instrs[n].kind \in {"DebugRef", "Phi", "Append"}
        /\ problems \in {<<>>, <<Diag("assign", AppendMsg)>>}

\* C15 witness: flagged although the result flows through a phi into a
\* further append whose result comes back to the phi.
C15_Witness ==
    /\ pc = "done"
    /\ problems # <<>>
    /\ \E p, a \in Consumers :
          /\ ssafn.Instrs[p].kind = "Phi"
          /\ ssafn.Instrs[a].kind = "Append"
          /\ a # 1
          /\ a \in Range(ssafn.Instrs[p].Referrers)
          /\ p \in Range(ssafn.Instrs[a].Referrers)

(***************************************************************************)
(* Claims about the guards of the SSA-based checks (SpecChecks).           *)
(***************************************************************************)
\* The site lacks a fact the running check needs: the SSA function is
\* missing or has no blocks, or the expression has no SSA value or no
\* referrer list.  (A function without blocks holds no DebugRef, so the
\* checks that start from ValueForExpr see it as a missing value.)
UnsoundSite ==
    CASE check \in {"CheckInfiniteRecursion", "CheckIneffecitiveFieldAssignments"}
            -> ssafn.nil \/ Len(ssafn.Blocks) = 0
      [] check = "CheckPredeterminedBooleanExprs" -> ssafn.nil \/ ~ast.isBinOp
      [] check = "CheckUnreadVariableValues" -> ssafn.nil
      [] check = "CheckIneffectiveAppend"
            -> ssafn.nil \/ ~ast.hasValue \/ ast.refsNil
      [] check = "CheckLoopCondition" -> ssafn.nil \/ ~ssafn.v.hasValue
      [] OTHER -> FALSE

\* C16: on a site whose SSA function is missing or without blocks, or
\* whose expression has no SSA value or no referrer list, a check goes
\* from its start straight to its end and emits nothing; in an assignment
\* the pair whose expression has no value or no referrer list is not
\* flagged.
C16_UnsoundSitesSkipped ==
    /\ UnsoundSite => (problems = <<>> /\ pc \in {"start", "done"})
    /\ (check = "CheckUnreadVariableValues" /\ Len(ast.Lhs) = Len(ast.Rhs)) =>
          \A i \in 1..Len(ast.Rhs) :
             (~ast.Rhs[i].hasValue \/ ast.Rhs[i].refs.isNil)
                => \A k \in 1..Len(problems) : problems[k] # UnreadDiag(i)

\* C16 witness: CheckIneffectiveAppend has ended on an assignment that
\* passes every guard except that the value of the call has no referrer
\* list.
C16_Witness ==
    /\ pc = "done"
    /\ check = "CheckIneffectiveAppend"
    /\ ast = AppendSite(TRUE, "ident", TRUE, FALSE, TRUE, TRUE)
    /\ ~ssafn.nil

(***************************************************************************)
(* Claims about CheckSignalChannelSize (SpecSignal).                       *)
(***************************************************************************)
\* The statement before call j that last gave the variable of the call its
\* value; 0 when there is none.
AssignedBefore(j) ==
    {i \in 1..(j - 1) : ast[i].kind # "notify" /\ ast[i].name = ast[j].name}

ChannelOf(j) ==
    IF AssignedBefore(j) = {} THEN 0
    ELSE CHOOSE i \in AssignedBefore(j) : \A k \in AssignedBefore(j) : k <= i

\* The buffer size of a channel made with a constant or omitted size.
MadeWithKnownSize(i) == i # 0 /\ ast[i].rhs \in {"make1", "makeConst"}

BufferSize(i) == IF ast[i].rhs = "makeConst" THEN ast[i].n ELSE 0

NotifyCalls == {j \in 1..Len(ast) : ast[j].kind = "notify" /\ ast[j].name # "sel"}

SignalProblems == {problems[k] : k \in 1..Len(problems)}

RECURSIVE SignalsUpTo(_, _)
SignalsUpTo(j, k) ==
    IF k = 0 THEN 0
    ELSE SignalsUpTo(j, k - 1) +
         (IF ast[k].kind = "notify" /\ ast[k].name = ast[j].name
          THEN ast[k].sigs ELSE 0)

\* The variable of call j is declared by c := make(...) with a constant or
\* omitted size and holds that channel at the call.
DeclaredByMake(j) ==
    /\ MadeWithKnownSize(ChannelOf(j))
    /\ ast[ChannelOf(j)].kind = "define"

\* C19: signals are counted per channel across the Notify calls: a call
\* is flagged, with the total as the number of signals, exactly when the
\* buffer size is smaller than the total number of signals registered on
\* the channel up to and including that call.
C19_CountsCumulatively ==
    (check = "CheckSignalChannelSize" /\ pc = "done") =>
       \A j \in NotifyCalls :
          DeclaredByMake(j) =>
             IF BufferSize(ChannelOf(j)) < SignalsUpTo(j, j)
             THEN Diag(j, SignalMsg(BufferSize(ChannelOf(j)), SignalsUpTo(j, j)))
                     \in SignalProblems
             ELSE \A p \in SignalProblems : p.pos # j

DisabledIDs == {"SA1009", "SA4007"}

RegistryDone == rule = RuleIDs[Len(RuleIDs)] /\ pc = "done"

UnlockOf(method) == IF method = "RLock" THEN "RUnlock" ELSE "Unlock"

\* Statement i is a return reached while mutex x is held through method
\* (Lock or RLock): locked before i and not unlocked since, unlocked only
\* after i, and no deferred unlock of x is in effect.
ReturnWhileHeld(i, x, method) ==
    /\ ast[i].kind = "ifreturn"
    /\ \E j \in 1..(i - 1) :
          /\ ast[j] = MutexStmt("call", x, method)
          /\ \A k \in (j + 1)..(i - 1) :
                ast[k] # MutexStmt("call", x, UnlockOf(method))
    /\ \E k \in (i + 1)..Len(ast) : ast[k] = MutexStmt("call", x, UnlockOf(method))
    /\ \A k \in 1..(i - 1) : ast[k] # MutexStmt("defer", x, UnlockOf(method))

\* C20: after the registered checks have run, a return is reported
\* "return before mutex unlock" exactly when it is reached between the
\* Lock()/RLock() of a mutex and the matching unlock, with no deferred
\* unlock of that mutex in effect.
C20_ReturnBeforeUnlockReported ==
    RegistryDone =>
       \A i \in 1..Len(ast) :
          (\E x \in Mutexes, method \in {"Lock", "RLock"} : ReturnWhileHeld(i, x, method))
             <=> \E k \in 1..Len(problems) :
                    problems[k] = Diag(i, PlainMsg("return before mutex unlock"))

(***************************************************************************)
(* Claims about CheckIneffectiveCopy (SpecCopy).                           *)
(***************************************************************************)
CopyNodes == {<<e, i>> : e \in 1..Len(ast), i \in 1..MaxOps}

\* Node p is an expression of the form first-second-x.
OfForm(p, first, second) ==
    /\ p[2] < Len(ast[p[1]])
    /\ ast[p[1]][p[2]] = first
    /\ ast[p[1]][p[2] + 1] = second

ProblemsAt(p) == {k \in 1..Len(problems) : problems[k].pos = p}

\* C21: every expression &*x and every expression *&x is reported exactly
\* once, with the message "&*T is ineffective. It will be simplified to T"
\* for &*x and "*&T is ineffective. It will be simplified to T" for *&x.
C21_ReportedOnceWithTestMessage ==
    (check = "CheckIneffectiveCopy" /\ pc = "done") =>
       \A p \in CopyNodes :
          /\ OfForm(p, "&", "*") =>
                /\ Cardinality(ProblemsAt(p)) = 1
                /\ \A k \in ProblemsAt(p) :
                      problems[k].msg = "&*T is ineffective. It will be simplified to T"
          /\ OfForm(p, "*", "&") =>
                /\ Cardinality(ProblemsAt(p)) = 1
                /\ \A k \in ProblemsAt(p) :
                      problems[k].msg = "*&T is ineffective. It will be simplified to T"

\* Every expression &*x and *&x is reported exactly once, and nothing
\* else is reported.
CopyReportedOncePerSite ==
    (check = "CheckIneffectiveCopy" /\ pc = "done") =>
       \A p \in CopyNodes :
          Cardinality(ProblemsAt(p)) =
             IF OfForm(p, "&", "*") \/ OfForm(p, "*", "&") THEN 1 ELSE 0

(***************************************************************************)
(* Claims about the calls of consts (SpecConstsFair).                      *)
(***************************************************************************)
\* The step enters a call on a phi that the query has visited already.
RevisitsPhi ==
    /\ pc = "call"
    /\ ssafn.Values[TopFrame.val].kind = "Phi"
    /\ TopFrame.val \in phisSeen

\* Every element of sequence s is an element of sequence t.
NoAdditional(s, t) == \A i \in 1..Len(s) : \E j \in 1..Len(t) : s[i] = t[j]

\* C22: a query of consts comes to its end on every value graph, with the
\* result the recursive definition gives; no phi is expanded twice in a
\* query; and the call on a phi visited before returns with ok true and
\* no constant added.
C22_ConstsTerminates ==
    /\ <>(pc = "done")
    /\ [](\A v \in 1..Len(expansions) : expansions[v] <= 1)
    /\ [](pc = "done" => xs = constsOf(ssafn.Values, ast.val))
    /\ [][RevisitsPhi => (pc' = "returned" /\ NoAdditional(constsOut', constsOut))]_vars

\* C22 witness: the query is over, with ok true, on a graph in which a phi
\* is its own operand through a conversion.
C22_Witness ==
    /\ check = "consts"
    /\ pc = "done"
    /\ xs.ok
    /\ \E v \in 1..Len(ssafn.Values) :
          /\ ssafn.Values[v].kind = "Phi"
          /\ \E w \in Range(ssafn.Values[v].Operands) :
                /\ ssafn.Values[w].kind = "Convert"
                /\ ssafn.Values[w].Operands[1] = v

(***************************************************************************)
(* Claims about the calls of hasRead (SpecHasReadFair).                    *)
(***************************************************************************)
\* The calls for the writes of the block come to an end, with the
\* diagnostics of the recursive definition.
HasReadTerminates ==
    /\ <>(pc = "done")
    /\ [](pc = "done" =>
            problems = CheckWrites(ssafn, reads, ast.block, ast.order, 1, {}))

\* A call that has found a matching read returns true through all its
\* callers without entering another block.
HasReadShortCircuits ==
    [][pc = "true" => pc' \in {"true", "write"}]_vars

\* No block is entered twice under one `seen` map.
EnteredOncePerSeen ==
    [](\A b \in 1..Len(entries) : entries[b] <= 1)

\* C23: the forward read search ends on every control-flow graph, enters
\* each block at most once per visited set, and returns true as soon as
\* the first matching read is found.
C23_HasReadTerminates ==
    /\ HasReadTerminates
    /\ EnteredOncePerSeen
    /\ HasReadShortCircuits

\* Within the call for one write no block is entered twice: between two
\* top-level calls the count of a block grows by at most one.
EnteredOncePerCall ==
    [](\A b \in 1..Len(entries) :
          entries[b] <= Len(ast.order) - Len(writeOrder) + (IF pc = "write" THEN 0 ELSE 1))

(***************************************************************************)
(* Claims about walkRefs (SpecWalk, SpecWalkFair).                         *)
(***************************************************************************)
\* No instruction is marked visited twice.
ProcessedOnce ==
    \A i, j \in 1..Len(processed) : processed[i] = processed[j] => i = j

\* The walk marks exactly the instructions reached over the referrers of
\* the result, of phis and of further append calls, while no instruction
\* that is no value has cut a loop short.
ProcessedAreConsumers ==
    /\ Range(processed) \subseteq Consumers
    /\ (pc = "done" /\ ~isUsed) => Range(processed) = Consumers

\* The walk ends with the flag the closure computes.
WalkAgreesWithClosure ==
    pc = "done" =>
        isUsed = walkRefs(ssafn.Instrs, ssafn.Instrs[1].Referrers, 1,
                          [isUsed |-> FALSE, visited |-> {}]).isUsed

\* The result is consumed by phis, append calls and debug references only.
OnlyAppendsConsume ==
    \A n \in Consumers : ssafn.Instrs[n].kind \in {"DebugRef", "Phi", "Append"}

\* C27: walkRefs terminates on every referrer graph, cycles included; it
\* processes each referring instruction at most once; and an append whose
\* result is consumed by phis, appends and debug references only is
\* flagged.
C27_WalkRefsTerminates ==
    /\ <>(pc = "done")
    /\ []ProcessedOnce
    /\ []ProcessedAreConsumers
    /\ []WalkAgreesWithClosure
    /\ [](pc = "done" /\ OnlyAppendsConsume
            => problems = <<Diag("assign", AppendMsg)>>)

\* C27 witness: the walk has ended with a diagnostic after it went round
\* the cycle of a phi and an append call that refer to each other and
\* passed a debug reference.
C27_Witness ==
    /\ check = "walkRefs"
    /\ pc = "done"
    /\ problems = <<Diag("assign", AppendMsg)>>
    /\ \E p, a, dbg \in Range(processed) :
          /\ ssafn.Instrs[p].kind = "Phi"
          /\ ssafn.Instrs[a].kind = "Append"
          /\ ssafn.Instrs[dbg].kind = "DebugRef"
          /\ a \in Range(ssafn.Instrs[p].Referrers)
          /\ p \in Range(ssafn.Instrs[a].Referrers)

=============================================================================
